---- MODULE Spec2Model ----
(***************************************************************************)
(* A model of qat/purr/compiler/builders.py: InstructionBuilder and        *)
(* QuantumInstructionBuilder.                                              *)
(*                                                                         *)
(* Python objects live in heaps and are referred to by their index, so     *)
(* that identity, aliasing and in-place mutation are what the code has:    *)
(*   heap   instruction objects (a Label's name and a Synchronize's        *)
(*          channel set are mutated in place by the builder);              *)
(*   dicts  the dict objects that builders hold as _entanglement_map.      *)
(* The instruction classes, Label.generate_name and the hardware model are *)
(* collaborators that builders.py imports; what the model needs of them is *)
(* stated in the definitions marked "collaborator".                        *)
(***************************************************************************)
EXTENDS Integers, Sequences, FiniteSets, TLC

VARIABLES
    instructions,           \* builder -> sequence of heap indices  (self._instructions)
    existing_names,         \* builder -> set of names              (self.existing_names)
    entanglement_map,       \* builder -> index into dicts          (self._entanglement_map)
    dicts,                  \* sequence of dict objects: qubit -> set of qubits
    heap,                   \* sequence of instruction objects
    model,                  \* builder -> hardware model           (self.model)
    related_devices,        \* component -> sequence of components  (QuantumComponent.related_devices)
    generate_name_records,  \* whether Label.generate_name stores the name it returns in the set it is handed
    hist,                   \* the calls made so far, oldest first
    pre                     \* the builders' state before the last call

vars == <<instructions, existing_names, entanglement_map, dicts, heap, model,
          related_devices, generate_name_records, hist, pre>>

env == <<related_devices, generate_name_records>>

(***************************************************************************)
(* Values                                                                  *)
(***************************************************************************)
None == "None"

\* Label names that callers pass and that Label.generate_name may return.
Names == {"q0", "q1", "q2"}

Qubits == {"Q0", "Q1", "Q2"}

\* The builders' mutable state as one value, so that a method is an operator
\* from state to state and a method that calls another composes them.
World == [instructions |-> instructions, existing_names |-> existing_names,
          entanglement_map |-> entanglement_map, dicts |-> dicts, heap |-> heap,
          model |-> model]

Starts(w) ==
    /\ instructions = w.instructions
    /\ existing_names = w.existing_names
    /\ entanglement_map = w.entanglement_map
    /\ dicts = w.dicts
    /\ heap = w.heap
    /\ model = w.model

Commit(w) ==
    /\ instructions' = w.instructions
    /\ existing_names' = w.existing_names
    /\ entanglement_map' = w.entanglement_map
    /\ dicts' = w.dicts
    /\ heap' = w.heap
    /\ model' = w.model

EmptyDict == [q \in {} |-> {}]

\* The hardware model that the builders are constructed on.
hardware_model == "hardware_model"

IndexOf(seq, x) == CHOOSE i \in 1..Len(seq) : seq[i] = x

Range(seq) == {seq[i] : i \in 1..Len(seq)}

\* InstructionBuilder.__init__ for each builder of the sequence bs: an empty
\* list, an empty name set and a dict of its own.
__init__(bs) ==
    [instructions |-> [b \in Range(bs) |-> <<>>],
     existing_names |-> [b \in Range(bs) |-> {}],
     entanglement_map |-> [b \in Range(bs) |-> IndexOf(bs, b)],
     dicts |-> [i \in 1..Len(bs) |-> EmptyDict],
     heap |-> <<>>,
     model |-> [b \in Range(bs) |-> hardware_model]]

(***************************************************************************)
(* Instruction objects (collaborator: qat.purr.compiler.instructions)      *)
(***************************************************************************)
\* An instruction object: its class, its name (a Label's) and its quantum
\* targets (a QuantumInstruction's).
Instruction(cls, name, targets) == [cls |-> cls, name |-> name, targets |-> targets]

QuantumInstruction ==
    {"Pulse", "MeasurePulse", "Acquire", "Synchronize", "PhaseReset", "PostProcessing"}

\* MeasurePulse is a Pulse.
Pulse == {"Pulse", "MeasurePulse"}

Label(name) == Instruction("Label", name, {})

Return == Instruction("Return", "", {})

\* Constructing an object: it gets the next heap index.
New(w, obj) == [w EXCEPT !.heap = Append(@, obj)]

Newest(w) == Len(w.heap)

\* Label.generate_name(existing): a name that is not in existing. The names it
\* may return, and the set it was handed afterwards.
generate_name(existing) == Names \ existing

Stored(existing, name) ==
    IF generate_name_records THEN existing \cup {name} ELSE existing

(***************************************************************************)
(* InstructionBuilder                                                      *)
(***************************************************************************)
\* A set as a list, for the loops that run over one.
RECURSIVE SeqOf(_)
SeqOf(S) ==
    IF S = {} THEN <<>>
    ELSE LET x == CHOOSE y \in S : TRUE IN <<x>> \o SeqOf(S \ {x})

\* _recurse_relationships: the qubits found from item, and the guard after
\* the call (guard is one set object shared by the whole walk).
RECURSIVE _recurse_relationships(_, _), RecurseRelated(_, _, _, _)
_recurse_relationships(item, guard) ==
    IF item \in guard
    THEN [results |-> {}, guard |-> guard]
    ELSE RecurseRelated(related_devices[item], 1, {}, guard \cup {item})

\* The loop with the result of the recursive call dropped.
RECURSIVE RecurseRelatedOnly(_, _, _, _)
RecurseRelatedOnly(rels, i, recurse_results, guard) ==
    IF i > Len(rels)
    THEN [results |-> recurse_results, guard |-> guard]
    ELSE IF rels[i] \in Qubits
         THEN RecurseRelatedOnly(rels, i + 1, recurse_results \cup {rels[i]}, guard)
         ELSE RecurseRelatedOnly(rels, i + 1, recurse_results, guard \cup {rels[i]})

\* The loop over item.related_devices, from position i on.
RecurseRelated(rels, i, recurse_results, guard) ==
    IF i > Len(rels)
    THEN [results |-> recurse_results, guard |-> guard]
    ELSE IF rels[i] \in Qubits
         THEN RecurseRelated(rels, i + 1, recurse_results \cup {rels[i]}, guard)
         ELSE LET r == _recurse_relationships(rels[i], guard)
              IN RecurseRelated(rels, i + 1, recurse_results \cup r.results, r.guard)

\* The loop over inst.quantum_targets, from position i on.
RECURSIVE EntangledOfTargets(_, _, _, _)
EntangledOfTargets(targets, i, results, guard) ==
    IF i > Len(targets)
    THEN results
    ELSE LET r == _recurse_relationships(targets[i], guard)
         IN EntangledOfTargets(targets, i + 1, results \cup r.results, r.guard)

_get_entangled_qubits(inst) ==
    IF inst.cls \notin Pulse
    THEN {}
    ELSE EntangledOfTargets(SeqOf(inst.targets), 1, {}, {})

\* The update made for one of the qubits only, the others getting their
\* default entry.
UpdateEntanglementOfOne(d, ent_qubits) ==
    [q \in DOMAIN d \cup ent_qubits |->
        IF q \in ent_qubits /\ q = (CHOOSE p \in ent_qubits : TRUE)
        THEN (IF q \in DOMAIN d THEN d[q] ELSE {}) \cup ent_qubits
        ELSE IF q \in DOMAIN d THEN d[q] ELSE {}]

\* The update that puts the qubits in place of what an entry held.
UpdateEntanglementReplacing(d, ent_qubits) ==
    [q \in DOMAIN d \cup ent_qubits |-> IF q \in ent_qubits THEN ent_qubits ELSE d[q]]

\* The update that also takes over what the entries of the other qubits hold.
UpdateEntanglementClosed(d, ent_qubits) ==
    [q \in DOMAIN d \cup ent_qubits |->
        IF q \in ent_qubits
        THEN UNION {IF p \in DOMAIN d THEN d[p] ELSE {} : p \in ent_qubits} \cup ent_qubits
        ELSE d[q]]

\* dict.setdefault(qubit, set()).update(ent_qubits) for every qubit of ent_qubits.
UpdateEntanglement(d, ent_qubits) ==
    [q \in DOMAIN d \cup ent_qubits |->
        IF q \in ent_qubits
        THEN (IF q \in DOMAIN d THEN d[q] ELSE {}) \cup ent_qubits
        ELSE d[q]]

\* The turn of the loop with the instruction put at the front of the list.
InsertInstruction(w, self, id) ==
    LET inst == w.heap[id]
        m == w.entanglement_map[self]
        w1 == IF inst.cls \in QuantumInstruction
              THEN [w EXCEPT !.dicts[m] = UpdateEntanglement(@, _get_entangled_qubits(inst))]
              ELSE w
    IN [w1 EXCEPT !.instructions[self] = <<id>> \o @]

\* One turn of the second loop of add: the entanglement checker, then append.
AppendInstruction(w, self, id) ==
    LET inst == w.heap[id]
        m == w.entanglement_map[self]
        w1 == IF inst.cls \in QuantumInstruction
              THEN [w EXCEPT !.dicts[m] = UpdateEntanglement(@, _get_entangled_qubits(inst))]
              ELSE w
    IN [w1 EXCEPT !.instructions[self] = Append(@, id)]

RECURSIVE AppendAll(_, _, _, _)
AppendAll(w, self, inst_list, i) ==
    IF i > Len(inst_list)
    THEN w
    ELSE AppendAll(AppendInstruction(w, self, inst_list[i]), self, inst_list, i + 1)

\* _fix_clashing_label_names, run on builder other: the loop over its
\* instructions from position i on. existing_names is the set object of
\* builder owner; new_names[n] is what generate_name returns for the clashing
\* name n, and ok tells whether each was a name generate_name can return.
RECURSIVE _fix_clashing_label_names(_, _, _, _, _, _, _)
_fix_clashing_label_names(w, other, invalid_label_names, owner, new_names, regenerated_names, i) ==
    IF i > Len(w.instructions[other])
    THEN [w |-> w, ok |-> TRUE]
    ELSE LET id == w.instructions[other][i]
             inst == w.heap[id]
         IN IF inst.cls # "Label" \/ inst.name \notin invalid_label_names
            THEN _fix_clashing_label_names(w, other, invalid_label_names, owner,
                                           new_names, regenerated_names, i + 1)
            ELSE LET fresh == inst.name \notin regenerated_names
                     new_name == new_names[inst.name]
                     w1 == IF fresh
                           THEN [w EXCEPT !.existing_names[owner] = Stored(@, new_name)]
                           ELSE w
                     w2 == [w1 EXCEPT !.heap[id].name = new_name]
                     rest == _fix_clashing_label_names(w2, other, invalid_label_names, owner,
                                 new_names, regenerated_names \cup {inst.name}, i + 1)
                 IN [w |-> rest.w,
                     ok |-> rest.ok /\ (fresh => new_name \in generate_name(w.existing_names[owner]))]

\* merge_builder with the other builder's name set, not the union, handed to
\* _fix_clashing_label_names.
merge_builder_other_names(w, self, other_builder, new_names) ==
    LET name_clashes == w.existing_names[other_builder] \cap w.existing_names[self]
        w1 == [w EXCEPT !.existing_names[self] = @ \cup w.existing_names[other_builder]]
        fixed == IF \E n \in name_clashes : n # ""
                 THEN _fix_clashing_label_names(w1, other_builder, name_clashes, other_builder,
                                                new_names, {}, 1)
                 ELSE [w |-> w1, ok |-> TRUE]
    IN [w |-> AppendAll(fixed.w, self, fixed.w.instructions[other_builder], 1),
        ok |-> fixed.ok]

\* merge_builder. any(name_clashes) is true when some clashing name is a
\* non-empty string.
merge_builder(w, self, other_builder, new_names) ==
    LET name_clashes == w.existing_names[other_builder] \cap w.existing_names[self]
        w1 == [w EXCEPT !.existing_names[self] = @ \cup w.existing_names[other_builder]]
        fixed == IF \E n \in name_clashes : n # ""
                 THEN _fix_clashing_label_names(w1, other_builder, name_clashes, self,
                                                new_names, {}, 1)
                 ELSE [w |-> w1, ok |-> TRUE]
    IN [w |-> AppendAll(fixed.w, self, fixed.w.instructions[other_builder], 1),
        ok |-> fixed.ok]

\* A component handed to add: an instruction object or a builder.
Inst(id) == [builder |-> "", id |-> id]

Nested(b) == [builder |-> b, id |-> 0]

\* The first loop of add, from position i on: a builder is merged when it is
\* met, an instruction is put on inst_list.
RECURSIVE AddComponents(_, _, _, _, _, _)
AddComponents(w, self, components, new_names, inst_list, i) ==
    IF i > Len(components)
    THEN [w |-> AppendAll(w, self, inst_list, 1), ok |-> TRUE]
    ELSE IF components[i].builder # ""
         THEN LET m == merge_builder(w, self, components[i].builder, new_names)
                  rest == AddComponents(m.w, self, components, new_names, inst_list, i + 1)
              IN [w |-> rest.w, ok |-> m.ok /\ rest.ok]
         ELSE AddComponents(w, self, components, new_names,
                            Append(inst_list, components[i].id), i + 1)

\* add(components), components a list (a single component is the list of it,
\* None is the empty list: both leave the loops nothing to do).
add(w, self, components, new_names) ==
    AddComponents(w, self, components, new_names, <<>>, 1)

\* add of instructions only, where no name is generated.
NoNames == [n \in Names |-> n]

add_instructions(w, self, ids) ==
    add(w, self, [i \in 1..Len(ids) |-> Inst(ids[i])], NoNames).w

\* create_label(name): the builder after the call and the Label returned.
\* generated is what generate_name returns when it is called. The replacement
\* name of line 364 goes into the warning only: line 367 builds Label(name).
create_label(w, self, name, generated) ==
    LET calls == name = None \/ name \in w.existing_names[self]
        w1 == IF calls
              THEN [w EXCEPT !.existing_names[self] = Stored(@, generated)]
              ELSE w
        w2 == New(w1, Label(IF name = None THEN generated ELSE name))
    IN [w |-> w2, ret |-> Newest(w2),
        ok |-> calls => generated \in generate_name(w.existing_names[self])]

\* returns(): add(Return(variables)).
returns(w, self) ==
    LET w1 == New(w, Return) IN add_instructions(w1, self, <<Newest(w1)>>)

(***************************************************************************)
(* Calls                                                                   *)
(***************************************************************************)
Last == hist[Len(hist)]

Called(op) == hist # <<>> /\ Last.op = op

\* A call: the builders change to w, and the call is recorded.
Call(w, record) ==
    /\ Commit(w)
    /\ hist' = Append(hist, record)
    /\ pre' = World
    /\ UNCHANGED env

\* The hardware model of a builder that holds no quantum instruction.
NoDevices == [c \in {} |-> <<>>]

\* The names of the Label instructions in a builder's instruction sequence.
LabelIds(w, b) ==
    {id \in Range(w.instructions[b]) : w.heap[id].cls = "Label"}

LabelNames(w, b) == {w.heap[id].name : id \in LabelIds(w, b)}

(***************************************************************************)
(* Labels and merging: two builders, labels created and added, builders    *)
(* merged.                                                                 *)
(***************************************************************************)
MaxLabelCalls == 4

LabelBuilders == <<"A", "B">>

InitLabel ==
    /\ Starts(__init__(LabelBuilders))
    /\ related_devices = NoDevices
    /\ generate_name_records \in BOOLEAN
    /\ hist = <<>>
    /\ pre = __init__(LabelBuilders)

\* builder.add(builder.create_label(name)), name None or a name.
CreateLabel(self) ==
    \E name \in Names \cup {None}, generated \in Names :
        LET made == create_label(World, self, name, generated)
            calls == name = None \/ name \in existing_names[self]
        IN /\ Len(hist) < MaxLabelCalls
           /\ made.ok
           /\ calls \/ generated = name
           /\ Call(add_instructions(made.w, self, <<made.ret>>),
                   [op |-> "create_label", self |-> self, name |-> name, ret |-> made.ret])

\* builder.merge_builder(other_builder).
MergeBuilder(self, other_builder) ==
    /\ Len(hist) < MaxLabelCalls
    /\ self # other_builder
    /\ \E new_names \in [Names -> Names] :
        LET merged == merge_builder(World, self, other_builder, new_names)
            name_clashes == existing_names[other_builder] \cap existing_names[self]
        IN /\ \A n \in Names \ name_clashes : new_names[n] = n
           /\ merged.ok
           /\ Call(merged.w,
                   [op |-> "merge_builder", self |-> self, other |-> other_builder])

NextLabel ==
    \/ \E self \in Range(LabelBuilders) : CreateLabel(self)
    \/ \E self, other \in Range(LabelBuilders) : MergeBuilder(self, other)

SpecLabel == InitLabel /\ [][NextLabel]_vars

(***************************************************************************)
(* Claims on labels and merging                                            *)
(***************************************************************************)
\* C1: after any sequence of add calls on fresh builders, existing_names of a
\* builder is exactly the set of names of the Label instructions in its
\* instruction sequence. Stated for a generate_name that stores the names it
\* returns: with one that does not, existing_names is never anything but empty.
C1_ExistingNamesAreLabelNames ==
    generate_name_records =>
        \A b \in DOMAIN instructions : existing_names[b] = LabelNames(World, b)

\* The create_label calls made so far on builder b with the name given.
CreatedBy(b, name) ==
    {i \in 1..Len(hist) : hist[i].op = "create_label" /\ hist[i].self = b
                          /\ hist[i].name = name}

\* merge_builder(other) has just run on self, and before it each of the two
\* builders held a label it had itself created under the name given.
MergedOwnLabels(name) ==
    /\ Called("merge_builder")
    /\ \E i \in CreatedBy(Last.self, name) :
           /\ hist[i].ret \in Range(pre.instructions[Last.self])
           /\ pre.heap[hist[i].ret].name = name
    /\ \E i \in CreatedBy(Last.other, name) :
           /\ hist[i].ret \in Range(pre.instructions[Last.other])
           /\ pre.heap[hist[i].ret].name = name

\* C5: two builders each created and added a label named "q0"; after one is
\* merged into the other, of the labels created under that name exactly one
\* in the merged sequence is still named "q0", and those of the merged
\* builder carry a name that was in neither builder's name set.
C5_MergeRenamesOneOfTwoQ0 ==
    MergedOwnLabels("q0") =>
        /\ \A i \in CreatedBy(Last.other, "q0") :
               hist[i].ret \in Range(pre.instructions[Last.other]) =>
                   /\ heap[hist[i].ret].name # "q0"
                   /\ heap[hist[i].ret].name \notin
                          pre.existing_names[Last.self] \cup pre.existing_names[Last.other]
        /\ \E id \in LabelIds(World, Last.self) : heap[id].name = "q0"

\* C6: the Label that create_label returns has a name that was not in the
\* builder's existing_names when create_label was called.
C6_CreateLabelNameIsUnused ==
    Called("create_label") =>
        heap[Last.ret].name \notin pre.existing_names[Last.self]

\* C7: after merge_builder(other), self.existing_names holds every name
\* either builder had; a Label of other whose name was in both name sets has
\* a name that was in neither; Labels of other that shared a clashing name
\* share their new name; the other Labels of other keep their names.
C7_MergeBuilderRenamesClashes ==
    Called("merge_builder") =>
        LET self == Last.self
            other == Last.other
            both == pre.existing_names[self] \cap pre.existing_names[other]
            either == pre.existing_names[self] \cup pre.existing_names[other]
            labels == LabelIds(pre, other)
        IN /\ either \subseteq existing_names[self]
           /\ \A id \in labels :
                  IF pre.heap[id].name \in both
                  THEN heap[id].name \notin either
                  ELSE heap[id].name = pre.heap[id].name
           /\ \A id1, id2 \in labels :
                  (pre.heap[id1].name = pre.heap[id2].name) => (heap[id1].name = heap[id2].name)
           /\ instructions[self] = pre.instructions[self] \o pre.instructions[other]

\* C7's case: other held two Label objects under one name that was in both
\* name sets, and both now carry the new name.
C7_Witness ==
    /\ Called("merge_builder")
    /\ \E id1, id2 \in LabelIds(pre, Last.other) :
           /\ id1 # id2
           /\ pre.heap[id1].name = pre.heap[id2].name
           /\ pre.heap[id1].name \in
                  pre.existing_names[Last.self] \cap pre.existing_names[Last.other]
           /\ heap[id1].name # pre.heap[id1].name
           /\ heap[id2].name = heap[id1].name

(***************************************************************************)
(* add with lists: two builders, instructions and nested builders added in *)
(* one call.                                                               *)
(***************************************************************************)
MaxAddCalls == 3

MaxComponents == 2

\* What a caller may put in the list: an instruction it has just constructed,
\* or another builder.
ComponentKinds(self) == {"new"} \cup (Range(LabelBuilders) \ {self})

ComponentLists(self) ==
    UNION {[1..n -> ComponentKinds(self)] : n \in 1..MaxComponents}

\* The caller's list built: a Return constructed for each "new".
RECURSIVE Construct(_, _, _, _)
Construct(w, kinds, i, components) ==
    IF i > Len(kinds)
    THEN [w |-> w, components |-> components]
    ELSE IF kinds[i] = "new"
         THEN LET w1 == New(w, Return)
              IN Construct(w1, kinds, i + 1, Append(components, Inst(Newest(w1))))
         ELSE Construct(w, kinds, i + 1, Append(components, Nested(kinds[i])))

\* builder.add([...]).
Add(self) ==
    \E kinds \in ComponentLists(self) :
        LET made == Construct(World, kinds, 1, <<>>)
            added == add(made.w, self, made.components, NoNames)
        IN /\ Len(hist) < MaxAddCalls
           /\ added.ok
           /\ Call(added.w, [op |-> "add", self |-> self, components |-> made.components])

\* builder.returns().
Returns(self) ==
    /\ Len(hist) < MaxAddCalls
    /\ Call(returns(World, self), [op |-> "returns", self |-> self])

NextAdd ==
    \/ \E self \in Range(LabelBuilders) : Add(self)
    \/ \E self \in Range(LabelBuilders) : Returns(self)

SpecAdd == InitLabel /\ [][NextAdd]_vars

\* The instructions of a list of components, in the order of the list.
RECURSIVE Contents(_, _, _)
Contents(w, components, i) ==
    IF i > Len(components)
    THEN <<>>
    ELSE (IF components[i].builder # ""
          THEN w.instructions[components[i].builder]
          ELSE <<components[i].id>>) \o Contents(w, components, i + 1)

\* C8: add with a list of instructions and nested builders appends their
\* contents in the order of the list.
C8_AddKeepsListOrder ==
    Called("add") =>
        instructions[Last.self] =
            pre.instructions[Last.self] \o Contents(pre, Last.components, 1)

(***************************************************************************)
(* Merging in two orders: builders A, B, C, and A2, B2, C2 built with the  *)
(* same instructions. B then C are merged into A; C2 is merged into B2 and *)
(* then B2 into A2.                                                        *)
(***************************************************************************)
MaxBuilt == 1

AssocBuilders == <<"A", "B", "C", "A2", "B2", "C2">>

Twin(b) == CASE b = "A2" -> "A" [] b = "B2" -> "B" [] b = "C2" -> "C" [] OTHER -> b

\* What a builder is built with: a Return, or a Label under a name that is in
\* the builder's existing_names (a generated one) or is not (a given one).
BuiltNames == {"q0", "q1"}

Built == {[cls |-> "Return", name |-> "", generated |-> FALSE]}
         \cup [cls : {"Label"}, name : BuiltNames, generated : BOOLEAN]

BuiltLists == UNION {[1..n -> Built] : n \in 0..MaxBuilt}

\* The number of objects that the builders before builder number k are built
\* with: its own objects take the heap indices that follow.
RECURSIVE Before(_, _, _)
Before(built, bs, k) ==
    IF k = 1 THEN 0 ELSE Before(built, bs, k - 1) + Len(built[bs[k - 1]])

RECURSIVE BuiltHeap(_, _, _)
BuiltHeap(built, bs, k) ==
    IF k > Len(bs)
    THEN <<>>
    ELSE [i \in 1..Len(built[bs[k]]) |->
             Instruction(built[bs[k]][i].cls, built[bs[k]][i].name, {})]
         \o BuiltHeap(built, bs, k + 1)

Firsts == <<"A", "B", "C">>

BuiltWorld(built) ==
    [instructions |->
         [b \in Range(AssocBuilders) |->
             [i \in 1..Len(built[Twin(b)]) |->
                 Before(built, Firsts, IndexOf(Firsts, Twin(b))) + i]],
     existing_names |->
         [b \in Range(AssocBuilders) |->
             {built[Twin(b)][i].name :
                 i \in {j \in 1..Len(built[Twin(b)]) : built[Twin(b)][j].generated}}],
     entanglement_map |-> [b \in Range(AssocBuilders) |-> IndexOf(AssocBuilders, b)],
     dicts |-> [i \in 1..Len(AssocBuilders) |-> EmptyDict],
     heap |-> BuiltHeap(built, Firsts, 1),
     model |-> [b \in Range(AssocBuilders) |-> hardware_model]]

InitAssoc ==
    \E built \in [Range(Firsts) -> BuiltLists] :
        /\ Starts(BuiltWorld(built))
        /\ pre = BuiltWorld(built)
        /\ hist = <<[op |-> "built", self |-> "", other |-> "",
                     names |-> BuiltWorld(built).existing_names]>>
        /\ related_devices = NoDevices
        /\ generate_name_records \in BOOLEAN
        /\ generate_name_records
           \/ \A b \in Range(Firsts) : \A i \in 1..Len(built[b]) : ~built[b][i].generated

\* The merges made so far into the builders of bs.
MergesInto(bs) ==
    Cardinality({i \in 1..Len(hist) : hist[i].op = "merge_builder" /\ hist[i].self \in bs})

\* The next merge of each order.
Scheduled(self, other) ==
    \/ self = "A" /\ other = "B" /\ MergesInto({"A"}) = 0
    \/ self = "A" /\ other = "C" /\ MergesInto({"A"}) = 1
    \/ self = "B2" /\ other = "C2" /\ MergesInto({"A2", "B2"}) = 0
    \/ self = "A2" /\ other = "B2" /\ MergesInto({"A2", "B2"}) = 1

MergeScheduled(self, other_builder) ==
    /\ Scheduled(self, other_builder)
    /\ \E new_names \in [Names -> Names] :
        LET merged == merge_builder(World, self, other_builder, new_names)
            name_clashes == existing_names[other_builder] \cap existing_names[self]
        IN /\ \A n \in Names \ name_clashes : new_names[n] = n
           /\ merged.ok
           /\ Call(merged.w,
                   [op |-> "merge_builder", self |-> self, other |-> other_builder])

NextAssoc ==
    \E self, other \in Range(AssocBuilders) : MergeScheduled(self, other)

SpecAssoc == InitAssoc /\ [][NextAssoc]_vars

BothOrdersDone == MergesInto({"A"}) = 2 /\ MergesInto({"A2", "B2"}) = 2

NoNameClashes ==
    \A b, c \in Range(Firsts) : b # c => hist[1].names[b] \cap hist[1].names[c] = {}

\* C9: with no name clashes among A, B and C, merging B and then C into A
\* gives A the instruction order that merging C into B and then B into A does.
C9_MergeOrderAssociative ==
    (BothOrdersDone /\ NoNameClashes) => instructions["A"] = instructions["A2"]

\* C9's case: both orders ran on three non-empty builders, two of them with
\* a generated label name.
C9_Witness ==
    /\ BothOrdersDone
    /\ NoNameClashes
    /\ \A b \in Range(Firsts) : instructions[b] # <<>>
    /\ hist[1].names["B"] # {}
    /\ hist[1].names["C"] # {}
    /\ Len(instructions["A"]) = 3

(***************************************************************************)
(* The entanglement checker: one builder, instructions added whose targets *)
(* are devices of a related_devices graph, every graph on the devices.     *)
(***************************************************************************)
MaxEntCalls == 2

Devices == {"D0", "D1"}

EntBuilders == <<"A">>

InitEnt ==
    /\ Starts(__init__(EntBuilders))
    /\ pre = __init__(EntBuilders)
    /\ hist = <<>>
    /\ generate_name_records \in BOOLEAN
    /\ \E related \in [Devices -> SUBSET (Qubits \cup Devices)] :
           related_devices = [d \in Devices |-> SeqOf(related[d])]

\* builder.add(inst), inst an instruction of class cls just constructed on
\* the targets given.
AddQuantum(self, cls, targets) ==
    LET w1 == New(World, Instruction(cls, "", targets))
    IN /\ Len(hist) < MaxEntCalls
       /\ Call(add_instructions(w1, self, <<Newest(w1)>>),
               [op |-> "add", self |-> self, components |-> <<Inst(Newest(w1))>>])

\* builder.returns().
AddClassical(self) ==
    /\ Len(hist) < MaxEntCalls
    /\ Call(returns(World, self), [op |-> "returns", self |-> self])

NextEnt ==
    \/ \E targets \in SUBSET Devices \ {{}} : AddQuantum("A", "Pulse", targets)
    \/ \E targets \in SUBSET Devices \ {{}} : AddQuantum("A", "Synchronize", targets)
    \/ AddClassical("A")

SpecEnt == InitEnt /\ [][NextEnt]_vars

\* The devices that a walk along related_devices from the devices of ds gets
\* to, and the qubits that those devices are related to.
RECURSIVE DevicesFrom(_)
DevicesFrom(ds) ==
    LET next == ds \cup {c \in Devices : \E d \in ds : c \in Range(related_devices[d])}
    IN IF next = ds THEN ds ELSE DevicesFrom(next)

QubitsReached(targets) ==
    {q \in Qubits : \E d \in DevicesFrom(targets) : q \in Range(related_devices[d])}

\* A builder's entanglement map.
MapOf(w, b) == w.dicts[w.entanglement_map[b]]

Entry(d, q) == IF q \in DOMAIN d THEN d[q] ELSE {}

\* The instruction that the last call, an add of one instruction, added.
Added == heap[Last.components[1].id]

\* C10: adding a pulse whose targets reach the qubits R leaves the entry of
\* every qubit of R holding all of R (and what it held), and no other entry
\* changed; adding a quantum instruction that is no pulse, or a classical
\* instruction, leaves the map as it was.
C10_PulseEntanglesReachedQubits ==
    /\ Called("add") =>
        LET reached == IF Added.cls \in Pulse THEN QubitsReached(Added.targets) ELSE {}
            before == MapOf(pre, Last.self)
            after == MapOf(World, Last.self)
        IN /\ reached \subseteq DOMAIN after
           /\ \A q \in reached : after[q] = Entry(before, q) \cup reached
           /\ \A q \in Qubits \ reached :
                  /\ q \in DOMAIN after <=> q \in DOMAIN before
                  /\ Entry(after, q) = Entry(before, q)
    /\ Called("returns") => MapOf(World, Last.self) = MapOf(pre, Last.self)

\* C10's case: a pulse on two targets that reach exactly two qubits, neither
\* of them recorded before, through a graph in which the targets lie on a
\* cycle and the qubits are related to one device only.
C10_Witness ==
    /\ Called("add")
    /\ Added.cls = "Pulse"
    /\ Added.targets = {"D0", "D1"}
    /\ QubitsReached(Added.targets) = {"Q0", "Q1"}
    /\ DOMAIN MapOf(pre, Last.self) = {}
    /\ "D1" \in Range(related_devices["D0"])
    /\ "D0" \in Range(related_devices["D1"])
    /\ \A q \in Qubits : q \notin Range(related_devices["D0"])
    /\ MapOf(World, Last.self)["Q0"] = {"Q0", "Q1"}
    /\ MapOf(World, Last.self)["Q1"] = {"Q0", "Q1"}

\* C12 as it is stated: if qubit A is in the set recorded for qubit B, the
\* set recorded for A holds B and every other member of B's set.
C12_EntriesHoldEachOthersMembers ==
    LET m == MapOf(World, "A")
    IN \A a, b \in DOMAIN m :
           a \in m[b] => b \in m[a] /\ (m[b] \ {a}) \subseteq m[a]

\* C12, amended: if qubit A is in the set recorded for qubit B, then A has an
\* entry and it holds B; every recorded qubit is in its own set.
C12_EntriesAreSymmetric ==
    LET m == MapOf(World, "A")
    IN \A b \in DOMAIN m :
           /\ b \in m[b]
           /\ \A a \in m[b] : a \in DOMAIN m /\ b \in m[a]

\* C12's case: two pulses left the middle qubit with both others in its set,
\* and each of the others with the middle one but not with each other.
C12_Witness ==
    LET m == MapOf(World, "A")
    IN /\ DOMAIN m = {"Q0", "Q1", "Q2"}
       /\ m["Q1"] = {"Q0", "Q1", "Q2"}
       /\ m["Q0"] = {"Q0", "Q1"}
       /\ m["Q2"] = {"Q1", "Q2"}

\* The pulse instructions of the builder, and the qubits that one couples.
Pulses == {id \in Range(instructions["A"]) : heap[id].cls \in Pulse}

Couples(id) == QubitsReached(heap[id].targets)

\* One pulse couples exactly a and b, another exactly b and c, none a and c.
CoupledInTurn(a, b, c) ==
    /\ \E p1, p2 \in Pulses : p1 # p2 /\ Couples(p1) = {a, b} /\ Couples(p2) = {b, c}
    /\ \A p \in Pulses : ~({a, c} \subseteq Couples(p))

\* C13: when one pulse couples exactly {A, B}, another exactly {B, C} and no
\* instruction couples A and C, C is not in the set of A nor A in that of C.
C13_NoClosureAcrossInstructions ==
    \A a, b, c \in Qubits :
        (a # b /\ b # c /\ a # c /\ CoupledInTurn(a, b, c)) =>
            /\ c \notin Entry(MapOf(World, "A"), a)
            /\ a \notin Entry(MapOf(World, "A"), c)

\* C13's case: Q0 and Q1 were coupled, then Q1 and Q2, and the set of Q1
\* holds all three.
C13_Witness ==
    /\ CoupledInTurn("Q0", "Q1", "Q2")
    /\ MapOf(World, "A")["Q1"] = {"Q0", "Q1", "Q2"}
    /\ "Q2" \notin MapOf(World, "A")["Q0"]

(***************************************************************************)
(* QuantumInstructionBuilder                                               *)
(*                                                                         *)
(* Collaborators: a qubit's channels, and the instruction classes that     *)
(* measure builds. A barrier's channels are kept as the qubits they belong *)
(* to. Instruction objects are equal when they are the same object.        *)
(***************************************************************************)
get_measure_channel(qubit) ==
    [Q0 |-> "Q0.measure", Q1 |-> "Q1.measure", Q2 |-> "Q2.measure"][qubit]

get_acquire_channel(qubit) ==
    [Q0 |-> "Q0.acquire", Q1 |-> "Q1.acquire", Q2 |-> "Q2.acquire"][qubit]

Synchronize(targets) == Instruction("Synchronize", "", targets)

PhaseReset(targets) == Instruction("PhaseReset", "", targets)

MeasurePulse(channel) == Instruction("MeasurePulse", "", {channel})

\* Acquire(channel, time, mode, output_variable, existing_names, delay).
Acquire(channel, mode, output_variable) ==
    [cls |-> "Acquire", name |-> output_variable, targets |-> {channel}, mode |-> mode]

\* PostProcessing(acq, process, axes, args).
PostProcessing(acq, process, args) ==
    [cls |-> "PostProcessing", name |-> "", targets |-> {},
     acq |-> acq, process |-> process, args |-> args]

\* list.remove(x): the list without the first of its elements equal to x.
Remove(seq, x) ==
    LET i == CHOOSE i \in 1..Len(seq) : seq[i] = x /\ \A j \in 1..(i - 1) : seq[j] # x
    IN SubSeq(seq, 1, i - 1) \o SubSeq(seq, i + 1, Len(seq))

Reverse(seq) == [i \in 1..Len(seq) |-> seq[Len(seq) + 1 - i]]

\* [val for val in block if isinstance(val, cls)].
OfClass(w, block, cls) ==
    LET IsInstance(id) == w.heap[id].cls = cls IN SelectSeq(block, IsInstance)

mblock_types == <<"Acquire", "MeasurePulse">>

optional_block_types == {"PostProcessing", "Synchronize", "PhaseReset"}

\* The loop with a cursor that stays on the first of mblock_types.
RECURSIVE ScanWithoutCycle(_, _, _, _, _)
ScanWithoutCycle(w, insts, i, current, previous_measure_block) ==
    IF i = 0
    THEN previous_measure_block
    ELSE LET cls == w.heap[insts[i]].cls
         IN IF cls \notin QuantumInstruction
            THEN ScanWithoutCycle(w, insts, i - 1, current, previous_measure_block)
            ELSE IF cls \in optional_block_types \cup {mblock_types[current]}
            THEN ScanWithoutCycle(w, insts, i - 1, current,
                                  Append(previous_measure_block, insts[i]))
            ELSE previous_measure_block

\* The loop that ends at a classical instruction.
RECURSIVE ScanToClassical(_, _, _, _, _)
ScanToClassical(w, insts, i, current, previous_measure_block) ==
    IF i = 0
    THEN previous_measure_block
    ELSE LET cls == w.heap[insts[i]].cls
             next == (current % Len(mblock_types)) + 1
         IN IF cls \in optional_block_types \cup {mblock_types[current]}
            THEN ScanToClassical(w, insts, i - 1, current,
                                 Append(previous_measure_block, insts[i]))
            ELSE IF cls \in optional_block_types \cup {mblock_types[next]}
            THEN ScanToClassical(w, insts, i - 1, next,
                                 Append(previous_measure_block, insts[i]))
            ELSE previous_measure_block

\* The loop over reversed(self._instructions), at position i of insts;
\* current is where the cycle over mblock_types stands.
RECURSIVE Scan(_, _, _, _, _)
Scan(w, insts, i, current, previous_measure_block) ==
    IF i = 0
    THEN previous_measure_block
    ELSE LET cls == w.heap[insts[i]].cls
             next == (current % Len(mblock_types)) + 1
         IN IF cls \notin QuantumInstruction
            THEN Scan(w, insts, i - 1, current, previous_measure_block)
            ELSE IF cls \in optional_block_types \cup {mblock_types[current]}
            THEN Scan(w, insts, i - 1, current, Append(previous_measure_block, insts[i]))
            ELSE IF cls \in optional_block_types \cup {mblock_types[next]}
            THEN Scan(w, insts, i - 1, next, Append(previous_measure_block, insts[i]))
            ELSE previous_measure_block

\* The candidate block, latest instruction first.
previous_measure_block(w, self) ==
    Scan(w, w.instructions[self], Len(w.instructions[self]), 1, <<>>)

\* The test with three Synchronize instructions asked for.
full_measure_block_of_three(w, block) ==
    /\ {w.heap[id].cls : id \in Range(block)} = Range(mblock_types) \cup optional_block_types
    /\ Len(OfClass(w, block, "Synchronize")) >= 3
    /\ Len(OfClass(w, block, "PhaseReset")) >= 1

\* The test with the classes of the block only asked to be block classes.
full_measure_block_of_some(w, block) ==
    /\ {w.heap[id].cls : id \in Range(block)} \subseteq Range(mblock_types) \cup optional_block_types
    /\ Len(OfClass(w, block, "Synchronize")) >= 2
    /\ Len(OfClass(w, block, "PhaseReset")) >= 1

\* The test that sends measure down the merge path.
full_measure_block(w, block) ==
    /\ {w.heap[id].cls : id \in Range(block)} = Range(mblock_types) \cup optional_block_types
    /\ Len(OfClass(w, block, "Synchronize")) >= 2
    /\ Len(OfClass(w, block, "PhaseReset")) >= 1

\* The loop that moves the post-processing of the block, from position i on.
RECURSIVE MovePostProcessing(_, _, _, _)
MovePostProcessing(w, self, pps, i) ==
    IF i > Len(pps)
    THEN w
    ELSE LET w1 == [w EXCEPT !.instructions[self] = Remove(@, pps[i])]
         IN MovePostProcessing(add_instructions(w1, self, <<pps[i]>>), self, pps, i + 1)

\* The merge path that leaves the post-measurement Synchronize of the block
\* in the sequence.
MergePathKeepingSync(w, self, qubit, entangled_qubits, acquire_instruction, block) ==
    LET syncs == OfClass(w, block, "Synchronize")
        phase_resets == OfClass(w, block, "PhaseReset")
        w1 == [w EXCEPT !.heap[syncs[Len(syncs)]].targets = @ \cup entangled_qubits]
        w2 == New(w1, Synchronize(w1.heap[syncs[1]].targets \cup {qubit}))
        final_syncronize == Newest(w2)
        w4 == New(w2, PhaseReset(w2.heap[phase_resets[1]].targets \cup entangled_qubits))
        final_phase_reset == Newest(w4)
        w5 == [w4 EXCEPT !.instructions[self] = Remove(@, phase_resets[1])]
        w6 == New(w5, MeasurePulse(get_measure_channel(qubit)))
        w7 == add_instructions(w6, self, <<Newest(w6), acquire_instruction,
                                           final_syncronize, final_phase_reset>>)
    IN MovePostProcessing(w7, self, Reverse(OfClass(w, block, "PostProcessing")), 1)

\* The merge path of measure.
MergePath(w, self, qubit, entangled_qubits, acquire_instruction, block) ==
    LET syncs == OfClass(w, block, "Synchronize")
        phase_resets == OfClass(w, block, "PhaseReset")
        w1 == [w EXCEPT !.heap[syncs[Len(syncs)]].targets = @ \cup entangled_qubits]
        w2 == New(w1, Synchronize(w1.heap[syncs[1]].targets \cup {qubit}))
        final_syncronize == Newest(w2)
        w3 == [w2 EXCEPT !.instructions[self] = Remove(@, syncs[1])]
        w4 == New(w3, PhaseReset(w3.heap[phase_resets[1]].targets \cup entangled_qubits))
        final_phase_reset == Newest(w4)
        w5 == [w4 EXCEPT !.instructions[self] = Remove(@, phase_resets[1])]
        w6 == New(w5, MeasurePulse(get_measure_channel(qubit)))
        w7 == add_instructions(w6, self, <<Newest(w6), acquire_instruction,
                                           final_syncronize, final_phase_reset>>)
    IN MovePostProcessing(w7, self, Reverse(OfClass(w, block, "PostProcessing")), 1)

\* The fresh path with the phase reset put before the last synchronize.
FreshPathResetFirst(w, self, qubit, entangled_qubits, acquire_instruction) ==
    LET w1 == New(w, Synchronize(entangled_qubits))
        w2 == New(w1, MeasurePulse(get_measure_channel(qubit)))
        w3 == New(w2, Synchronize({qubit}))
        w4 == New(w3, PhaseReset(entangled_qubits))
    IN add_instructions(w4, self, <<Newest(w1), Newest(w2), acquire_instruction,
                                    Newest(w4), Newest(w3)>>)

\* The fresh path of measure.
FreshPath(w, self, qubit, entangled_qubits, acquire_instruction) ==
    LET w1 == New(w, Synchronize(entangled_qubits))
        w2 == New(w1, MeasurePulse(get_measure_channel(qubit)))
        w3 == New(w2, Synchronize({qubit}))
        w4 == New(w3, PhaseReset(entangled_qubits))
    IN add_instructions(w4, self, <<Newest(w1), Newest(w2), acquire_instruction,
                                    Newest(w3), Newest(w4)>>)

\* measure with the axis looked at after the instructions are appended.
measure_then_check(w, self, qubit, axis, output_variable) ==
    LET mode == IF axis \in {None, "SEQUENCE"} THEN "INTEGRATOR" ELSE "SCOPE"
        d == w.dicts[w.entanglement_map[self]]
        entangled_qubits == IF qubit \in DOMAIN d THEN d[qubit] ELSE {}
        block == previous_measure_block(w, self)
        w1 == New(w, Acquire(get_acquire_channel(qubit), mode, output_variable))
        acquire_instruction == Newest(w1)
        w2 == IF full_measure_block(w, block)
              THEN MergePath(w1, self, qubit, entangled_qubits, acquire_instruction, block)
              ELSE FreshPath(w1, self, qubit, entangled_qubits, acquire_instruction)
    IN IF \/ axis \notin {None, "SEQUENCE", "TIME"}
          \/ output_variable # None /\ output_variable \in w.existing_names[self]
       THEN [w |-> w2, ret |-> 0, raised |-> TRUE]
       ELSE [w |-> w2, ret |-> acquire_instruction, raised |-> FALSE]

\* measure(qubit, axis, output_variable): the builder after the call, the
\* Acquire that the wrapper returned carries, and whether the call raised.
\* Acquire raises when it is given an output variable that is taken.
measure(w, self, qubit, axis, output_variable) ==
    LET mode == IF axis \in {None, "SEQUENCE"} THEN "INTEGRATOR" ELSE "SCOPE"
        d == w.dicts[w.entanglement_map[self]]
        entangled_qubits == IF qubit \in DOMAIN d THEN d[qubit] ELSE {}
        block == previous_measure_block(w, self)
        w1 == New(w, Acquire(get_acquire_channel(qubit), mode, output_variable))
        acquire_instruction == Newest(w1)
    IN IF \/ axis \notin {None, "SEQUENCE", "TIME"}
          \/ output_variable # None /\ output_variable \in w.existing_names[self]
       THEN [w |-> w, ret |-> 0, raised |-> TRUE]
       ELSE [w |-> IF full_measure_block(w, block)
                   THEN MergePath(w1, self, qubit, entangled_qubits,
                                  acquire_instruction, block)
                   ELSE FreshPath(w1, self, qubit, entangled_qubits,
                                  acquire_instruction),
             ret |-> acquire_instruction, raised |-> FALSE]

\* post_processing(acq, process, qubit=qubit) with no args given: the
\* arguments are read off the qubit for two of the processes.
post_processing(w, self, acq, process, qubit) ==
    IF process \in {"LINEAR_MAP_COMPLEX_TO_REAL", "DISCRIMINATE"} /\ qubit \notin Qubits
    THEN [w |-> w, raised |-> TRUE]
    ELSE LET args == IF process = "LINEAR_MAP_COMPLEX_TO_REAL"
                     THEN <<"mean_z_map_args", qubit>>
                     ELSE IF process = "DISCRIMINATE"
                     THEN <<"discriminator", qubit>>
                     ELSE <<>>
             w1 == New(w, PostProcessing(acq, process, args))
         IN [w |-> add_instructions(w1, self, <<Newest(w1)>>), raised |-> FALSE]

\* pulse(channel, ...): add(Pulse(channel, ...)).
pulse(w, self, channel) ==
    LET w1 == New(w, Instruction("Pulse", "", {channel}))
    IN add_instructions(w1, self, <<Newest(w1)>>)

(***************************************************************************)
(* Measurement: one QuantumInstructionBuilder on two qubits that share a   *)
(* cross-resonance channel. Each channel is related to the qubits it       *)
(* belongs to.                                                             *)
(***************************************************************************)
MaxMeasureCalls == 4

MeasureBuilders == <<"A">>

MeasuredQubits == {"Q0", "Q1"}

Hardware ==
    [c \in {"Q0.measure", "Q0.acquire", "Q1.measure", "Q1.acquire", "Q0.Q1.cr"} |->
        IF c \in {"Q0.measure", "Q0.acquire"} THEN <<"Q0">>
        ELSE IF c \in {"Q1.measure", "Q1.acquire"} THEN <<"Q1">>
        ELSE <<"Q0", "Q1">>]

Axes == {None, "TIME", "FREQUENCY"}

\* process and qubit of the post_processing calls made.
PostProcessCalls ==
    {[process |-> "MEAN", qubit |-> None],
     [process |-> "DISCRIMINATE", qubit |-> None]}

InitMeasure ==
    /\ Starts(__init__(MeasureBuilders))
    /\ pre = __init__(MeasureBuilders)
    /\ hist = <<>>
    /\ generate_name_records = FALSE
    /\ related_devices = Hardware

\* builder.measure(qubit, axis).
Measure(self, qubit, axis) ==
    LET m == measure(World, self, qubit, axis, None)
    IN /\ Len(hist) < MaxMeasureCalls
       /\ Call(m.w, [op |-> "measure", self |-> self, qubit |-> qubit, axis |-> axis,
                     ret |-> m.ret, raised |-> m.raised])

\* builder.post_processing(acq, process, qubit=qubit), acq an Acquire that a
\* measure call returned.
PostProcess(self, acq, call) ==
    LET p == post_processing(World, self, acq, call.process, call.qubit)
    IN /\ Len(hist) < MaxMeasureCalls
       /\ Call(p.w, [op |-> "post_processing", self |-> self, acq |-> acq,
                     raised |-> p.raised])

\* builder.pulse(channel, ...).
PulseOn(self, channel) ==
    /\ Len(hist) < MaxMeasureCalls
    /\ Call(pulse(World, self, channel), [op |-> "pulse", self |-> self])

\* builder.add(inst), inst an instruction that the builder holds already.
AddAgain(self, id) ==
    /\ Len(hist) < MaxMeasureCalls
    /\ Call(add_instructions(World, self, <<id>>),
            [op |-> "add", self |-> self, components |-> <<Inst(id)>>])

\* builder.returns().
ReturnsBetween(self) ==
    /\ Len(hist) < MaxMeasureCalls
    /\ Call(returns(World, self), [op |-> "returns", self |-> self])

Acquires(i) == {hist[k].ret : k \in {j \in 1..i : hist[j].op = "measure" /\ ~hist[j].raised}}

NextMeasure ==
    \/ \E qubit \in MeasuredQubits, axis \in Axes : Measure("A", qubit, axis)
    \/ \E acq \in Acquires(Len(hist)), call \in PostProcessCalls : PostProcess("A", acq, call)
    \/ PulseOn("A", "Q0.Q1.cr")
    \/ \E id \in Range(instructions["A"]) : AddAgain("A", id)
    \/ ReturnsBetween("A")

SpecMeasure == InitMeasure /\ [][NextMeasure]_vars

\* The classes that a measurement block is made of.
BlockClasses == {"Acquire", "MeasurePulse", "PostProcessing", "Synchronize", "PhaseReset"}

Class(w, id) == w.heap[id].cls

\* The run of instructions at the end of a builder's sequence, classical
\* instructions left out, whose classes are all BlockClasses: earliest first.
TrailingBlock(w, b) ==
    LET IsQuantum(id) == Class(w, id) \in QuantumInstruction
        q == SelectSeq(w.instructions[b], IsQuantum)
        start == CHOOSE k \in 1..(Len(q) + 1) :
                     /\ \A j \in k..Len(q) : Class(w, q[j]) \in BlockClasses
                     /\ k = 1 \/ Class(w, q[k - 1]) \notin BlockClasses
    IN SubSeq(q, start, Len(q))

\* A full measurement block: every class of BlockClasses occurs, Synchronize
\* at two places or more.
FullBlock(w, block) ==
    /\ {Class(w, id) : id \in Range(block)} = BlockClasses
    /\ Cardinality({i \in 1..Len(block) : Class(w, block[i]) = "Synchronize"}) >= 2

\* The last successful measure call: what it saw and what it left.
Measured == Called("measure") /\ ~Last.raised

BlockBefore == TrailingBlock(pre, Last.self)

EntangledBefore == Entry(MapOf(pre, Last.self), Last.qubit)

SequenceBefore == pre.instructions[Last.self]

SequenceAfter == instructions[Last.self]

IsNew(id) == id > Len(pre.heap)

\* C3: with no full measurement block before it, measure(q) appends five new
\* instructions, Synchronize(entangled qubits of q), MeasurePulse of q,
\* Acquire of q, Synchronize(q), PhaseReset(entangled qubits of q), in this
\* order, leaves the earlier instructions where and as they were, and returns
\* the Acquire.
C3_FreshMeasureAppendsFive ==
    (Measured /\ ~FullBlock(pre, BlockBefore)) =>
        LET n == Len(SequenceBefore)
        IN /\ Len(SequenceAfter) = n + 5
           /\ SubSeq(SequenceAfter, 1, n) = SequenceBefore
           /\ \A id \in 1..Len(pre.heap) : heap[id] = pre.heap[id]
           /\ \A i \in 1..5 : IsNew(SequenceAfter[n + i])
           /\ \A i, j \in 1..5 : i # j => SequenceAfter[n + i] # SequenceAfter[n + j]
           /\ heap[SequenceAfter[n + 1]].cls = "Synchronize"
           /\ heap[SequenceAfter[n + 1]].targets = EntangledBefore
           /\ heap[SequenceAfter[n + 2]].cls = "MeasurePulse"
           /\ heap[SequenceAfter[n + 2]].targets = {get_measure_channel(Last.qubit)}
           /\ heap[SequenceAfter[n + 3]].cls = "Acquire"
           /\ heap[SequenceAfter[n + 3]].targets = {get_acquire_channel(Last.qubit)}
           /\ heap[SequenceAfter[n + 4]].cls = "Synchronize"
           /\ heap[SequenceAfter[n + 4]].targets = {Last.qubit}
           /\ heap[SequenceAfter[n + 5]].cls = "PhaseReset"
           /\ heap[SequenceAfter[n + 5]].targets = EntangledBefore
           /\ Last.ret = SequenceAfter[n + 3]

\* C3's case: a measure of a qubit entangled with the other one, called on a
\* builder that ends in a measurement block that is not full.
C3_Witness ==
    /\ Measured
    /\ BlockBefore # <<>>
    /\ ~FullBlock(pre, BlockBefore)
    /\ \E i \in 1..Len(BlockBefore) : Class(pre, BlockBefore[i]) = "Acquire"
    /\ EntangledBefore = {"Q0", "Q1"}
    /\ Len(SequenceAfter) = Len(SequenceBefore) + 5
    /\ heap[SequenceAfter[Len(SequenceAfter)]].cls = "PhaseReset"
    /\ heap[SequenceAfter[Len(SequenceAfter)]].targets = {"Q0", "Q1"}

\* Positions of a builder's sequence after that of instruction id, which is
\* in it once, that hold an instruction of class cls.
PlacesAfter(id, cls) ==
    {i \in 1..Len(SequenceAfter) : /\ Class(World, SequenceAfter[i]) = cls
                           /\ \E k \in 1..(i - 1) : SequenceAfter[k] = id}

\* After the Acquire of the first measurement there is one Synchronize and
\* one PhaseReset, both made by the second call and both after the Acquire of
\* the second measurement.
OnePairSpansBoth(first, second) ==
    /\ Cardinality(PlacesAfter(first.ret, "Synchronize")) = 1
    /\ Cardinality(PlacesAfter(first.ret, "PhaseReset")) = 1
    /\ PlacesAfter(first.ret, "Synchronize") = PlacesAfter(second.ret, "Synchronize")
    /\ PlacesAfter(first.ret, "PhaseReset") = PlacesAfter(second.ret, "PhaseReset")
    /\ \A i \in PlacesAfter(first.ret, "Synchronize") \cup PlacesAfter(first.ret, "PhaseReset") :
           IsNew(SequenceAfter[i])

\* C2 as it is stated: two measure calls one after the other, on qubits A and
\* B that the entanglement map holds together, leave one post-measurement
\* Synchronize/PhaseReset pair, after both Acquire instructions.
C2_ConsecutiveMeasuresShareOnePair ==
    LET n == Len(hist)
    IN (/\ Measured
        /\ n >= 2
        /\ hist[n - 1].op = "measure"
        /\ ~hist[n - 1].raised
        /\ hist[n - 1].qubit # Last.qubit
        /\ hist[n - 1].qubit \in EntangledBefore)
       => OnePairSpansBoth(hist[n - 1], Last)

\* The calls k+1..n-1 are post_processing calls, one of them at least adding
\* its instruction, and call k is a measure call that did not raise.
PostProcessedMeasure(k) ==
    /\ hist[k].op = "measure"
    /\ ~hist[k].raised
    /\ \A j \in (k + 1)..(Len(hist) - 1) : hist[j].op = "post_processing"
    /\ \E j \in (k + 1)..(Len(hist) - 1) : ~hist[j].raised

\* C2, amended: two measure calls with post_processing calls and nothing else
\* between them, one at least of which added a PostProcessing instruction,
\* leave one post-measurement Synchronize/PhaseReset pair, after both Acquire
\* instructions.
C2_PostProcessedMeasuresShareOnePair ==
    Measured =>
        \A k \in 1..(Len(hist) - 1) :
            PostProcessedMeasure(k) => OnePairSpansBoth(hist[k], Last)

\* C2's case: the qubits are entangled by a pulse, the first is measured and
\* post-processed, the second is measured, and the one pair is on both.
C2_Witness ==
    /\ Measured
    /\ Len(hist) = 4
    /\ hist[1].op = "pulse"
    /\ PostProcessedMeasure(2)
    /\ hist[2].qubit = "Q0"
    /\ Last.qubit = "Q1"
    /\ EntangledBefore = {"Q0", "Q1"}
    /\ OnePairSpansBoth(hist[2], Last)
    /\ heap[SequenceAfter[Len(SequenceAfter) - 1]].cls = "PhaseReset"
    /\ heap[SequenceAfter[Len(SequenceAfter) - 1]].targets = {"Q0", "Q1"}

\* The instructions of a class in a block, earliest first.
InBlock(block, cls) == OfClass(pre, block, cls)

\* C4: after measure(q) found a full measurement block, the block's latest
\* Synchronize and latest PhaseReset are not in the sequence, and the sequence
\* ends with a new MeasurePulse of q, the new Acquire, a Synchronize on what
\* the latest Synchronize was on and q, a PhaseReset on what the latest
\* PhaseReset was on and the qubits entangled with q, and then the block's
\* PostProcessing instructions in the order they had.
C4_MergedMeasureRebuildsBlock ==
    (Measured /\ FullBlock(pre, BlockBefore)) =>
        LET syncs == InBlock(BlockBefore, "Synchronize")
            phase_resets == InBlock(BlockBefore, "PhaseReset")
            pps == InBlock(BlockBefore, "PostProcessing")
            sync == syncs[Len(syncs)]
            phase_reset == phase_resets[Len(phase_resets)]
            k == Len(SequenceAfter) - Len(pps) - 3
        IN /\ sync \notin Range(SequenceAfter)
           /\ phase_reset \notin Range(SequenceAfter)
           /\ k >= 1
           /\ \A i \in 0..3 : IsNew(SequenceAfter[k + i])
           /\ heap[SequenceAfter[k]].cls = "MeasurePulse"
           /\ heap[SequenceAfter[k]].targets = {get_measure_channel(Last.qubit)}
           /\ SequenceAfter[k + 1] = Last.ret
           /\ heap[SequenceAfter[k + 1]].cls = "Acquire"
           /\ heap[SequenceAfter[k + 2]].cls = "Synchronize"
           /\ heap[SequenceAfter[k + 2]].targets = pre.heap[sync].targets \cup {Last.qubit}
           /\ heap[SequenceAfter[k + 3]].cls = "PhaseReset"
           /\ heap[SequenceAfter[k + 3]].targets = pre.heap[phase_reset].targets \cup EntangledBefore
           /\ SubSeq(SequenceAfter, k + 4, Len(SequenceAfter)) = pps

\* C17: measure with an axis that is neither SEQUENCE nor TIME raises and
\* leaves the builder as it was; with no axis it goes ahead as with SEQUENCE,
\* acquiring in integrator mode.
C17_WrongAxisLeavesBuilder ==
    Called("measure") =>
        /\ Last.axis \notin {None, "SEQUENCE", "TIME"} =>
               /\ Last.raised
               /\ instructions = pre.instructions
               /\ existing_names = pre.existing_names
               /\ MapOf(World, Last.self) = MapOf(pre, Last.self)
               /\ heap = pre.heap
        /\ Last.axis = None => ~Last.raised /\ heap[Last.ret].mode = "INTEGRATOR"

\* C17's case: the wrong axis was given to a builder that ends in a full
\* measurement block.
C17_Witness ==
    /\ Called("measure")
    /\ Last.axis = "FREQUENCY"
    /\ Last.raised
    /\ FullBlock(pre, BlockBefore)
    /\ instructions = pre.instructions

\* The candidate block that the scan collected before the last measure call.
CandidateBefore == previous_measure_block(pre, Last.self)

CountBefore(cls) ==
    Cardinality({i \in 1..Len(CandidateBefore) : Class(pre, CandidateBefore[i]) = cls})

\* Places of the sequence that hold an instruction made by the last call.
NewPlaces == {i \in 1..Len(SequenceAfter) : IsNew(SequenceAfter[i])}

\* C20: measure takes the merge path (four new instructions, two old ones
\* gone) exactly when the candidate block holds the five classes and no
\* other, two Synchronize or more and a PhaseReset; otherwise it takes the
\* fresh path (five new instructions after the old ones).
C20_MergeIffFullBlock ==
    Measured =>
        IF /\ {Class(pre, id) : id \in Range(CandidateBefore)} = BlockClasses
           /\ CountBefore("Synchronize") >= 2
           /\ CountBefore("PhaseReset") >= 1
        THEN /\ Len(SequenceAfter) = Len(SequenceBefore) + 2
             /\ Cardinality(NewPlaces) = 4
        ELSE /\ Len(SequenceAfter) = Len(SequenceBefore) + 5
             /\ Cardinality(NewPlaces) = 5
             /\ SubSeq(SequenceAfter, 1, Len(SequenceBefore)) = SequenceBefore

\* C20's case: a measure took the fresh path after a block without
\* PostProcessing, and the next one, after a post_processing call, merged.
C20_Witness ==
    /\ Measured
    /\ Len(hist) = 4
    /\ hist[1].op = "measure" /\ ~hist[1].raised
    /\ hist[2].op = "measure" /\ ~hist[2].raised
    /\ hist[3].op = "post_processing" /\ ~hist[3].raised
    /\ Len(pre.instructions[Last.self]) = 11
    /\ CountBefore("Synchronize") = 4
    /\ Len(SequenceAfter) = 13

\* The quantum and the classical instructions of a builder's sequence, in
\* the order they have in it.
QuantumOf(w, b) ==
    LET IsQuantum(id) == Class(w, id) \in QuantumInstruction
    IN SelectSeq(w.instructions[b], IsQuantum)

ClassicalOf(w, b) ==
    LET IsClassical(id) == Class(w, id) \notin QuantumInstruction
    IN SelectSeq(w.instructions[b], IsClassical)

\* The builders with the classical instructions of b taken out of its sequence.
Stripped(w, b) == [w EXCEPT !.instructions[b] = QuantumOf(w, b)]

\* The same measure call made on the sequence without its classical
\* instructions.
MeasureOfStripped ==
    measure(Stripped(pre, Last.self), Last.self, Last.qubit, Last.axis, None)

\* A classical instruction stood between two instructions of the candidate
\* block.
ClassicalInsideBlock ==
    \E i, j, k \in 1..Len(SequenceBefore) :
        /\ i < j /\ j < k
        /\ SequenceBefore[i] \in Range(CandidateBefore)
        /\ Class(pre, SequenceBefore[j]) \notin QuantumInstruction
        /\ SequenceBefore[k] \in Range(CandidateBefore)

\* C21: the classical instructions of the sequence change nothing of what a
\* measure call does: the candidate block is the one collected without them,
\* the quantum instructions after the call, and the objects made and changed,
\* are those of the same call on the sequence without them (so the path is
\* the same), and the classical instructions are after the call the ones
\* before it, in the same order.
C21_ClassicalInstructionsAreTransparent ==
    Measured =>
        /\ CandidateBefore = previous_measure_block(Stripped(pre, Last.self), Last.self)
        /\ full_measure_block(pre, CandidateBefore)
               <=> full_measure_block(Stripped(pre, Last.self), CandidateBefore)
        /\ ~MeasureOfStripped.raised
        /\ QuantumOf(World, Last.self) = MeasureOfStripped.w.instructions[Last.self]
        /\ heap = MeasureOfStripped.w.heap
        /\ ClassicalOf(World, Last.self) = ClassicalOf(pre, Last.self)

\* C21's case: a measure merged into a full block that had a Return between
\* its instructions; the Return is still where it was, before the four new
\* instructions.
C21_Witness ==
    /\ Measured
    /\ ClassicalInsideBlock
    /\ full_measure_block(pre, CandidateBefore)
    /\ Len(SequenceAfter) = Len(SequenceBefore) + 2
    /\ ClassicalOf(World, Last.self) # <<>>
    /\ \E i \in 1..Len(SequenceAfter) :
           /\ Class(World, SequenceAfter[i]) = "Return"
           /\ i < Len(SequenceAfter) - 4

\* C24: the candidate block that the scan collects is the run of
\* instructions at the end of the sequence, classical instructions left out,
\* whose classes are Acquire, MeasurePulse, PostProcessing, Synchronize or
\* PhaseReset, up to the last quantum instruction of another class; so it
\* was for every measure call made.
C24_CandidateBlockIsTrailingRun ==
    /\ \A b \in DOMAIN instructions :
           Reverse(previous_measure_block(World, b)) = TrailingBlock(World, b)
    /\ Measured => Reverse(CandidateBefore) = BlockBefore

\* C24's case: measure scanned a sequence that ends with a MeasurePulse, at
\* which the cursor has to move on from Acquire, with another MeasurePulse
\* and an Acquire before it, and the scan ended at a Pulse.
C24_Witness ==
    /\ Measured
    /\ Len(CandidateBefore) = 6
    /\ Class(pre, CandidateBefore[1]) = "MeasurePulse"
    /\ \E i \in 2..6 : Class(pre, CandidateBefore[i]) = "MeasurePulse"
    /\ \E i \in 2..6 : Class(pre, CandidateBefore[i]) = "Acquire"
    /\ Len(QuantumOf(pre, Last.self)) = 7
    /\ Class(pre, QuantumOf(pre, Last.self)[1]) = "Pulse"

\* The number of places of a builder's sequence that hold an instruction of
\* class cls.
CountOf(w, b, cls) ==
    Cardinality({i \in 1..Len(w.instructions[b]) : Class(w, w.instructions[b][i]) = cls})

\* No instruction object is in the sequence twice.
PairwiseDistinct(seq) == \A i, j \in 1..Len(seq) : i # j => seq[i] # seq[j]

\* What the last call added to the number of instructions of class cls.
Growth(cls) == CountOf(World, Last.self, cls) - CountOf(pre, Last.self, cls)

\* C25: a measure call that returns, made on a sequence of pairwise distinct
\* instruction objects, makes the sequence longer by two when it merges, with
\* as many Synchronize and as many PhaseReset instructions as before and one
\* MeasurePulse and one Acquire more, and longer by five when it does not.
C25_MeasureAddsTwoOrFive ==
    (Measured /\ PairwiseDistinct(SequenceBefore)) =>
        IF full_measure_block(pre, CandidateBefore)
        THEN /\ Len(SequenceAfter) = Len(SequenceBefore) + 2
             /\ Growth("Synchronize") = 0
             /\ Growth("PhaseReset") = 0
             /\ Growth("MeasurePulse") = 1
             /\ Growth("Acquire") = 1
        ELSE Len(SequenceAfter) = Len(SequenceBefore) + 5

\* C25's case: a measure merged into the block that two measure calls and a
\* post_processing call left, in a sequence of distinct objects.
C25_Witness ==
    /\ Measured
    /\ PairwiseDistinct(SequenceBefore)
    /\ full_measure_block(pre, CandidateBefore)
    /\ Len(SequenceBefore) = 11
    /\ Len(SequenceAfter) = 13
    /\ CountOf(World, Last.self, "Synchronize") = 4
    /\ CountOf(World, Last.self, "PhaseReset") = 2
    /\ CountOf(World, Last.self, "MeasurePulse") = 3
    /\ CountOf(World, Last.self, "Acquire") = 3

(***************************************************************************)
(* clear, splice and get_child_builder: a QuantumInstructionBuilder and    *)
(* the child it hands out, on a hardware model with one cross-resonance    *)
(* channel.                                                                *)
(***************************************************************************)
\* clear() with the name set left as it is.
clear_instructions(w, self) ==
    [w EXCEPT !.instructions[self] = <<>>,
              !.dicts = Append(@, EmptyDict),
              !.entanglement_map[self] = Len(w.dicts) + 1]

\* clear(): a new list, a new set and a new dict.
clear(w, self) ==
    [w EXCEPT !.instructions[self] = <<>>,
              !.existing_names[self] = {},
              !.dicts = Append(@, EmptyDict),
              !.entanglement_map[self] = Len(w.dicts) + 1]

\* splice(): the builder after the call and the list returned.
splice(w, self) ==
    LET final_instructions == w.instructions[self]
    IN [w |-> clear(w, self), ret |-> final_instructions]

\* f with the value v at b, which need not be in its domain.
With(f, b, v) == [x \in DOMAIN f \cup {b} |-> IF x = b THEN v ELSE f[x]]

\* get_child_builder with the dict of the new builder left in place.
get_child_builder_own_map(w, self, child, inherit) ==
    [instructions |-> With(w.instructions, child, <<>>),
     existing_names |-> With(w.existing_names, child,
                             IF inherit THEN w.existing_names[self] ELSE {}),
     entanglement_map |-> With(w.entanglement_map, child, Len(w.dicts) + 1),
     dicts |-> Append(w.dicts, EmptyDict),
     heap |-> w.heap,
     model |-> With(w.model, child, w.model[self])]

\* get_child_builder(inherit), the builder returned being child: a builder
\* constructed on self.model that is given self's dict and, with inherit, a
\* copy of self's names.
get_child_builder(w, self, child, inherit) ==
    [instructions |-> With(w.instructions, child, <<>>),
     existing_names |-> With(w.existing_names, child,
                             IF inherit THEN w.existing_names[self] ELSE {}),
     entanglement_map |-> With(w.entanglement_map, child, w.entanglement_map[self]),
     dicts |-> w.dicts,
     heap |-> w.heap,
     model |-> With(w.model, child, w.model[self])]

MaxChildCalls == 4

HardwareModels == {hardware_model, "other_model"}

\* The builders there are.
Builders == DOMAIN instructions

InitChild ==
    /\ \E hw \in HardwareModels :
           /\ Starts([__init__(<<"A">>) EXCEPT !.model["A"] = hw])
           /\ pre = [__init__(<<"A">>) EXCEPT !.model["A"] = hw]
    /\ hist = <<>>
    /\ generate_name_records \in BOOLEAN
    /\ related_devices = Hardware

\* builder.add(builder.create_label()).
ChildCreateLabel(self) ==
    /\ Len(hist) < MaxChildCalls
    /\ \E generated \in Names :
           LET c == create_label(World, self, None, generated)
           IN /\ c.ok
              /\ Call(add_instructions(c.w, self, <<c.ret>>),
                      [op |-> "create_label", self |-> self, name |-> None, ret |-> c.ret])

\* builder.pulse(channel, ...).
ChildPulse(self, channel) ==
    /\ Len(hist) < MaxChildCalls
    /\ Call(pulse(World, self, channel), [op |-> "pulse", self |-> self])

\* builder.measure(qubit).
ChildMeasure(self, qubit) ==
    LET m == measure(World, self, qubit, None, None)
    IN /\ Len(hist) < MaxChildCalls
       /\ Call(m.w, [op |-> "measure", self |-> self, qubit |-> qubit, axis |-> None,
                     ret |-> m.ret, raised |-> m.raised])

\* self.merge_builder(other_builder).
ChildMerge(self, other_builder) ==
    /\ Len(hist) < MaxChildCalls
    /\ self # other_builder
    /\ \E new_names \in [Names -> Names] :
           LET name_clashes == existing_names[other_builder] \cap existing_names[self]
               merged == merge_builder(World, self, other_builder, new_names)
           IN /\ \A n \in Names \ name_clashes : new_names[n] = n
              /\ merged.ok
              /\ Call(merged.w, [op |-> "merge_builder", self |-> self,
                                 other |-> other_builder])

\* child = self.get_child_builder(inherit), called once.
ChildBuilder(self, child, inherit) ==
    /\ Len(hist) < MaxChildCalls
    /\ child \notin Builders
    /\ Call(get_child_builder(World, self, child, inherit),
            [op |-> "get_child_builder", self |-> self, child |-> child,
             inherit |-> inherit])

\* builder.clear().
Clear(self) ==
    /\ Len(hist) < MaxChildCalls
    /\ Call(clear(World, self), [op |-> "clear", self |-> self])

\* builder.splice().
Splice(self) ==
    /\ Len(hist) < MaxChildCalls
    /\ Call(splice(World, self).w,
            [op |-> "splice", self |-> self, ret |-> splice(World, self).ret])

NextChild ==
    \/ \E self \in Builders : ChildCreateLabel(self)
    \/ \E self \in Builders : ChildPulse(self, "Q0.Q1.cr")
    \/ \E self \in Builders : ChildMeasure(self, "Q1")
    \/ \E self, other_builder \in Builders : ChildMerge(self, other_builder)
    \/ \E inherit \in BOOLEAN : ChildBuilder("A", "B", inherit)
    \/ \E self \in Builders : Clear(self)
    \/ \E self \in Builders : Splice(self)

SpecChild == InitChild /\ [][NextChild]_vars

\* Every key of the map before is a key after, with all it held.
Grown(before, after) ==
    \A q \in DOMAIN before : q \in DOMAIN after /\ before[q] \subseteq after[q]

\* C11 as it is stated: whatever the operation, the entanglement map of a
\* builder after it holds every key and every member it held before.
C11_MapNeverShrinks ==
    hist # <<>> =>
        \A b \in DOMAIN pre.instructions : Grown(MapOf(pre, b), MapOf(World, b))

\* C11, amended: the same, but for the builder that clear or splice was
\* called on.
C11_MapShrinksOnlyByClear ==
    hist # <<>> =>
        \A b \in DOMAIN pre.instructions :
            ~(Last.op \in {"clear", "splice"} /\ Last.self = b) =>
                Grown(MapOf(pre, b), MapOf(World, b))

\* C11's case: a pulse added to the child made an entry of the parent's map
\* larger.
C11_Witness ==
    /\ Called("pulse")
    /\ Last.self = "B"
    /\ MapOf(pre, "A") = [q \in {"Q1"} |-> {"Q1"}]
    /\ MapOf(World, "A")["Q1"] = {"Q0", "Q1"}
    /\ MapOf(World, "A")["Q0"] = {"Q0", "Q1"}

\* C18: splice returns the sequence the builder held; after clear or splice
\* the builder's sequence, name set and entanglement map are empty and its
\* hardware model is the one it had.
C18_ClearEmptiesBuilder ==
    /\ Called("splice") => Last.ret = pre.instructions[Last.self]
    /\ (Called("clear") \/ Called("splice")) =>
           /\ instructions[Last.self] = <<>>
           /\ existing_names[Last.self] = {}
           /\ MapOf(World, Last.self) = EmptyDict
           /\ model[Last.self] = pre.model[Last.self]

\* C18's case: splice on a builder that held instructions, a name and
\* entanglement.
C18_Witness ==
    /\ Called("splice")
    /\ Len(Last.ret) >= 2
    /\ pre.existing_names[Last.self] # {}
    /\ DOMAIN MapOf(pre, Last.self) # {}
    /\ instructions[Last.self] = <<>>
    /\ model[Last.self] = "other_model"

\* No clear or splice was called after call k.
NoClearSince(k) ==
    \A j \in (k + 1)..Len(hist) : hist[j].op \notin {"clear", "splice"}

InstructionBuilders == {"I"}

\* The class of a builder, which decides the method that a call runs.
type(self) ==
    IF self \in InstructionBuilders THEN "InstructionBuilder"
    ELSE "QuantumInstructionBuilder"

\* raise ValueError(message): the builders are as they were.
Raise(w, message) == [w |-> w, error |-> message, calls |-> <<>>]

NotAvailable == "Not available on this hardware model."

\* The call of method with args that ran as r.
Invoked(method, args, r) ==
    [r EXCEPT !.calls = <<[method |-> method, args |-> args]>> \o @]

\* A call that returned as first, and then one that ran as second.
AndThen(first, second) == [second EXCEPT !.calls = first.calls \o @]

\* math.pi. The other angles are written as the source writes them.
pi == "pi"

\* Collaborators: the channels of a qubit, and the hardware model, which
\* answers a gate with the calibrated pulses for it.
get_pulse_channel(qubit, channel_type, auxiliary_devices) ==
    IF auxiliary_devices = <<>>
    THEN qubit \o "." \o channel_type
    ELSE qubit \o "." \o auxiliary_devices[1] \o "." \o channel_type

GateHardware ==
    [c \in {get_pulse_channel(q, "drive", <<>>) : q \in {"Q0", "Q1"}}
           \cup {get_pulse_channel(q[1], t, <<q[2]>>) :
                   q \in {<<"Q0", "Q1">>, <<"Q1", "Q0">>},
                   t \in {"cross_resonance", "cross_resonance_cancellation"}} |->
        IF c = "Q0.drive" THEN <<"Q0">>
        ELSE IF c = "Q1.drive" THEN <<"Q1">>
        ELSE <<"Q0", "Q1">>]

\* resolve_qb_pulse_channel(target): target is a qubit or a pulse channel.
resolve_qb_pulse_channel(target) ==
    IF target \in Qubits
    THEN [qubit |-> target, channel |-> get_pulse_channel(target, "drive", <<>>)]
    ELSE [qubit |-> GateHardware[target][1], channel |-> target]

GatePulse(gate, qubit, angle, channel) ==
    [cls |-> "Pulse", name |-> "", targets |-> {channel},
     gate |-> gate, qubit |-> qubit, angle |-> angle]

\* model.get_gate_X/Y/Z/U(qubit, angle, channel): the objects it builds and
\* the list of them that it returns.
get_gate(w, gate, qubit, angle, channel) ==
    LET on == IF channel = None THEN get_pulse_channel(qubit, "drive", <<>>) ELSE channel
        w1 == New(w, GatePulse(gate, qubit, angle, on))
    IN [w |-> w1, ret |-> <<Newest(w1)>>,
        calls |-> <<[method |-> "model.get_gate_" \o gate, args |-> <<qubit, angle, channel>>]>>]

\* model.get_gate_ZX(control, angle, target): a pulse on the cross-resonance
\* channel and one on the cancellation channel.
get_gate_ZX(w, control, angle, target) ==
    LET w1 == New(w, GatePulse("ZX", control, angle,
                               get_pulse_channel(control, "cross_resonance", <<target>>)))
        w2 == New(w1, GatePulse("ZX", control, angle,
                                get_pulse_channel(control, "cross_resonance_cancellation",
                                                  <<target>>)))
    IN [w |-> w2, ret |-> <<Newest(w1), Newest(w2)>>,
        calls |-> <<[method |-> "model.get_gate_ZX", args |-> <<control, angle, target>>]>>]

\* The methods of InstructionBuilder whose body is
\* raise ValueError("Not available on this hardware model."): measure, R,
\* swap, post_processing, sweep, pulse, acquire, delay, synchronize,
\* phase_shift, cswap and ECR.
not_available(w, self, method, args) == Invoked(method, args, Raise(w, NotAvailable))

\* InstructionBuilder.measure_single_shot_z, measure_single_shot_signal and
\* measure_mean_z: return self.measure(target, axis, output_variable);
\* measure_mean_signal: return self.measure(target, output_variable=...).
InstructionBuilder_measure_(w, self, method, args) ==
    Invoked(method, args,
            not_available(w, self, "measure",
                          IF method = "measure_mean_signal"
                          THEN <<args[1], None, args[2]>>
                          ELSE args))

\* R is the same on both classes.
R(w, self, axis, target, radii) == not_available(w, self, "R", <<axis, target, radii>>)

\* QuantumInstructionBuilder.X/Y/Z: add(model.get_gate_X(qubit, radii or pi, channel)).
Rotation(w, self, gate, target, radii) ==
    LET r == resolve_qb_pulse_channel(target)
        g == get_gate(w, gate, r.qubit, IF radii = None THEN pi ELSE radii, r.channel)
    IN [w |-> add_instructions(g.w, self, g.ret), error |-> None, calls |-> g.calls]

X(w, self, target, radii) ==
    Invoked("X", <<target, radii>>,
            IF type(self) = "InstructionBuilder"
            THEN R(w, self, "X", target, radii)
            ELSE Rotation(w, self, "X", target, radii))

Y(w, self, target, radii) ==
    Invoked("Y", <<target, radii>>,
            IF type(self) = "InstructionBuilder"
            THEN R(w, self, "Y", target, radii)
            ELSE Rotation(w, self, "Y", target, radii))

Z(w, self, target, radii) ==
    Invoked("Z", <<target, radii>>,
            IF type(self) = "InstructionBuilder"
            THEN R(w, self, "Z", target, radii)
            ELSE Rotation(w, self, "Z", target, radii))

\* InstructionBuilder.U: self.Z(target, lamb).Y(target, theta).Z(target, phi).
\* A call that raises ends the chain.
InstructionBuilder_U(w, self, target, theta, phi, lamb) ==
    LET first == Z(w, self, target, lamb)
        second == AndThen(first, Y(first.w, self, target, theta))
    IN IF first.error # None THEN first
       ELSE IF second.error # None THEN second
       ELSE AndThen(second, Z(second.w, self, target, phi))

\* U as three rotations on every class.
U_by_rotations(w, self, target, theta, phi, lamb) ==
    Invoked("U", <<target, theta, phi, lamb>>,
            InstructionBuilder_U(w, self, target, theta, phi, lamb))

\* QuantumInstructionBuilder.U: add(model.get_gate_U(qubit, theta, phi, lamb, channel)).
U(w, self, target, theta, phi, lamb) ==
    Invoked("U", <<target, theta, phi, lamb>>,
            IF type(self) = "InstructionBuilder"
            THEN InstructionBuilder_U(w, self, target, theta, phi, lamb)
            ELSE LET r == resolve_qb_pulse_channel(target)
                     g == get_gate(w, "U", r.qubit, theta \o ", " \o phi \o ", " \o lamb,
                                   r.channel)
                 IN [w |-> add_instructions(g.w, self, g.ret), error |-> None,
                     calls |-> g.calls])

\* had: self.Z(qubit), then return self.Y(qubit, math.pi / 2).
had(w, self, qubit) ==
    LET first == Z(w, self, qubit, None)
    IN Invoked("had", <<qubit>>,
               IF first.error # None THEN first
               ELSE AndThen(first, Y(first.w, self, qubit, "pi/2")))

\* SX, SXdg, S, Sdg, T, Tdg: the rotation and the angle that each calls.
FixedAngle ==
    [SX |-> <<"X", "pi/2">>, SXdg |-> <<"X", "-pi/2">>, S |-> <<"Z", "pi/2">>,
     Sdg |-> <<"Z", "-pi/2">>, T |-> <<"Z", "pi/4">>, Tdg |-> <<"Z", "-pi/4">>]

fixed_angle(w, self, method, target) ==
    Invoked(method, <<target>>,
            IF FixedAngle[method][1] = "X"
            THEN X(w, self, target, FixedAngle[method][2])
            ELSE Z(w, self, target, FixedAngle[method][2]))

\* cR that does nothing and returns the builder.
cR_returns(w, self, axis, controllers, target, theta) ==
    Invoked("cR", <<axis, controllers, target, theta>>,
            [w |-> w, error |-> None, calls |-> <<>>])

cR(w, self, axis, controllers, target, theta) ==
    Invoked("cR", <<axis, controllers, target, theta>>,
            Raise(w, "Generic controlled rotations not available."))

\* cX, cY, cZ: return self.cR(Axis.X, controllers, target, radii), and so on.
cAxis(w, self, axis, controllers, target, radii) ==
    Invoked("c" \o axis, <<controllers, target, radii>>,
            cR(w, self, axis, controllers, target, radii))

\* ccnot: raise self.cX([cone, ctwo], target_qubit, np.pi). The error of cX
\* goes through; were cX to return, raising the builder it returns is a
\* TypeError.
ccnot(w, self, cone, ctwo, target_qubit) ==
    LET r == cAxis(w, self, "X", "[" \o cone \o ", " \o ctwo \o "]", target_qubit, pi)
    IN Invoked("ccnot", <<cone, ctwo, target_qubit>>,
               IF r.error # None THEN r
               ELSE [r EXCEPT !.error = "exceptions must derive from BaseException"])

\* ECR with no barrier after the second ZX gate.
ECR_open_ended(w, self, control, target) ==
    IF control \notin Qubits \/ target \notin Qubits
    THEN Raise(w, "The quantum targets of the ECR node must be qubits!")
    ELSE LET pulse_channels ==
                 {get_pulse_channel(control, "drive", <<>>),
                  get_pulse_channel(control, "cross_resonance", <<target>>),
                  get_pulse_channel(control, "cross_resonance_cancellation", <<target>>),
                  get_pulse_channel(target, "drive", <<>>)}
             w1 == New(w, Synchronize(pulse_channels))
             sync_instr == Newest(w1)
             first == get_gate_ZX(w1, control, "pi/4", target)
             echo == get_gate(first.w, "X", control, pi, None)
             second == get_gate_ZX(echo.w, control, "-pi/4", target)
             results == <<sync_instr>> \o first.ret \o <<sync_instr>> \o echo.ret
                        \o <<sync_instr>> \o second.ret
         IN [w |-> add_instructions(second.w, self, results), error |-> None,
             calls |-> first.calls \o echo.calls \o second.calls]

\* QuantumInstructionBuilder.ECR: one Synchronize object, put on the list
\* four times around the pulses of the three gates.
QuantumInstructionBuilder_ECR(w, self, control, target) ==
    IF control \notin Qubits \/ target \notin Qubits
    THEN Raise(w, "The quantum targets of the ECR node must be qubits!")
    ELSE LET pulse_channels ==
                 {get_pulse_channel(control, "drive", <<>>),
                  get_pulse_channel(control, "cross_resonance", <<target>>),
                  get_pulse_channel(control, "cross_resonance_cancellation", <<target>>),
                  get_pulse_channel(target, "drive", <<>>)}
             w1 == New(w, Synchronize(pulse_channels))
             sync_instr == Newest(w1)
             first == get_gate_ZX(w1, control, "pi/4", target)
             echo == get_gate(first.w, "X", control, pi, None)
             second == get_gate_ZX(echo.w, control, "-pi/4", target)
             results == <<sync_instr>> \o first.ret \o <<sync_instr>> \o echo.ret
                        \o <<sync_instr>> \o second.ret \o <<sync_instr>>
         IN [w |-> add_instructions(second.w, self, results), error |-> None,
             calls |-> first.calls \o echo.calls \o second.calls]

ECR(w, self, control, target) ==
    IF type(self) = "InstructionBuilder"
    THEN not_available(w, self, "ECR", <<control, target>>)
    ELSE Invoked("ECR", <<control, target>>,
                 QuantumInstructionBuilder_ECR(w, self, control, target))

\* The lists of qubits that callers pass, each with its items.
Lists ==
    [l \in {"[Q0]", "[Q0, Q1]"} |-> IF l = "[Q0]" THEN <<"Q0">> ELSE <<"Q0", "Q1">>]

\* cnot with the rotation of the target put before those of the control.
cnot_target_first(w, self, controlled_qubit, target_qubit) ==
    LET ecr == ECR(w, self, controlled_qubit, target_qubit)
        x == AndThen(ecr, X(ecr.w, self, target_qubit, "-pi/2"))
        z == AndThen(x, Z(x.w, self, controlled_qubit, "-pi/2"))
    IN IF ecr.error # None THEN ecr
       ELSE AndThen(z, X(z.w, self, controlled_qubit, None))

\* QuantumInstructionBuilder.cnot after the control is taken out of its list.
QuantumInstructionBuilder_cnot(w, self, controlled_qubit, target_qubit) ==
    LET ecr == ECR(w, self, controlled_qubit, target_qubit)
        x == AndThen(ecr, X(ecr.w, self, controlled_qubit, None))
        z == AndThen(x, Z(x.w, self, controlled_qubit, "-pi/2"))
    IN IF ecr.error # None THEN ecr
       ELSE AndThen(z, X(z.w, self, target_qubit, "-pi/2"))

\* cnot. InstructionBuilder: self.cX(control, target_qubit, np.pi).
cnot(w, self, controlled_qubit, target_qubit) ==
    Invoked("cnot", <<controlled_qubit, target_qubit>>,
            IF type(self) = "InstructionBuilder"
            THEN cAxis(w, self, "X", controlled_qubit, target_qubit, pi)
            ELSE IF controlled_qubit \in DOMAIN Lists
            THEN IF Len(Lists[controlled_qubit]) > 1
                 THEN Raise(w, "CNOT requires one control qubit.")
                 ELSE QuantumInstructionBuilder_cnot(w, self, Lists[controlled_qubit][1],
                                                     target_qubit)
            ELSE QuantumInstructionBuilder_cnot(w, self, controlled_qubit, target_qubit))

(***************************************************************************)
(* The calls made on the two builders.                                     *)
(***************************************************************************)
MaxGateCalls == 2

GateBuilders == <<"A", "I">>

InitGate ==
    /\ Starts(__init__(GateBuilders))
    /\ pre = __init__(GateBuilders)
    /\ hist = <<>>
    /\ generate_name_records = FALSE
    /\ related_devices = GateHardware

\* A call of method op that ran as r.
GateCall(r, op, self, args) ==
    /\ Len(hist) < MaxGateCalls
    /\ Call(r.w, [op |-> op, self |-> self, args |-> args,
                  error |-> r.error, calls |-> r.calls])

\* The arguments of the calls made of the methods that are not available.
\* QuantumInstructionBuilder has R, swap and cswap of them as they are.
NotAvailableCalls ==
    [measure |-> <<"Q0", None, None>>, R |-> <<"X", "Q0", None>>,
     swap |-> <<"Q0", "Q1">>, post_processing |-> <<None, "MEAN">>, sweep |-> <<"[]">>,
     pulse |-> <<"Q0.drive">>, acquire |-> <<"Q0.drive">>, delay |-> <<"Q0", "time">>,
     synchronize |-> <<"[Q0, Q1]">>, phase_shift |-> <<"Q0.drive", "pi/2">>,
     cswap |-> <<"[Q0]", "Q1", "Q2">>]

GateNotAvailable(self, method) ==
    /\ type(self) = "InstructionBuilder" \/ method \in {"R", "swap", "cswap"}
    /\ GateCall(not_available(World, self, method, NotAvailableCalls[method]),
                method, self, NotAvailableCalls[method])

\* measure_single_shot_z, measure_single_shot_signal, measure_mean_z and
\* measure_mean_signal of an InstructionBuilder.
GateMeasure(self, method) ==
    LET args == IF method = "measure_mean_signal" THEN <<"Q0", None>>
                ELSE <<"Q0", None, None>>
    IN GateCall(InstructionBuilder_measure_(World, self, method, args), method, self, args)

GateX(self, target, radii) ==
    GateCall(X(World, self, target, radii), "X", self, <<target, radii>>)

GateY(self, target, radii) ==
    GateCall(Y(World, self, target, radii), "Y", self, <<target, radii>>)

GateZ(self, target, radii) ==
    GateCall(Z(World, self, target, radii), "Z", self, <<target, radii>>)

GateU(self, target, theta, phi, lamb) ==
    GateCall(U(World, self, target, theta, phi, lamb), "U", self, <<target, theta, phi, lamb>>)

GateHad(self) == GateCall(had(World, self, "Q0"), "had", self, <<"Q0">>)

GateFixedAngle(self, method) ==
    GateCall(fixed_angle(World, self, method, "Q0"), method, self, <<"Q0">>)

GateCR(self) ==
    GateCall(cR(World, self, "X", "Q0", "Q1", pi), "cR", self, <<"X", "Q0", "Q1", pi>>)

GateCAxis(self, axis) ==
    GateCall(cAxis(World, self, axis, "Q0", "Q1", None), "c" \o axis, self,
             <<"Q0", "Q1", None>>)

GateCnot(self, controlled_qubit, target_qubit) ==
    GateCall(cnot(World, self, controlled_qubit, target_qubit),
             "cnot", self, <<controlled_qubit, target_qubit>>)

GateCcnot(self) ==
    GateCall(ccnot(World, self, "Q0", "Q1", "Q2"), "ccnot", self, <<"Q0", "Q1", "Q2">>)

GateECR(self, control, target) ==
    GateCall(ECR(World, self, control, target), "ECR", self, <<control, target>>)

\* builder.returns(), which both classes support.
GateReturns(self) ==
    GateCall([w |-> returns(World, self), error |-> None, calls |-> <<>>],
             "returns", self, <<>>)

NextGate ==
    \E self \in Range(GateBuilders) :
        \/ \E method \in DOMAIN NotAvailableCalls : GateNotAvailable(self, method)
        \/ /\ type(self) = "InstructionBuilder"
           /\ \E method \in {"measure_single_shot_z", "measure_single_shot_signal",
                             "measure_mean_z", "measure_mean_signal"} :
                  GateMeasure(self, method)
        \/ \E target \in {"Q0", "Q1.drive"}, radii \in {None, "-pi/2"} :
               GateX(self, target, radii)
        \/ \E target \in {"Q0", "Q1.drive"}, radii \in {None, "-pi/2"} :
               GateY(self, target, radii)
        \/ \E target \in {"Q0", "Q1.drive"}, radii \in {None, "-pi/2"} :
               GateZ(self, target, radii)
        \/ \E theta \in {"pi/4", "pi/2"}, phi \in {"pi/4", "pi/2"}, lamb \in {"pi/4", "pi/2"} :
               GateU(self, "Q0", theta, phi, lamb)
        \/ GateHad(self)
        \/ \E method \in DOMAIN FixedAngle : GateFixedAngle(self, method)
        \/ GateCR(self)
        \/ \E axis \in {"X", "Y", "Z"} : GateCAxis(self, axis)
        \/ \E call \in {<<"Q0", "Q1">>, <<"Q1", "Q0">>, <<"[Q0]", "Q1">>,
                        <<"[Q0, Q1]", "Q1">>} :
               GateCnot(self, call[1], call[2])
        \/ GateCcnot(self)
        \/ \E call \in {<<"Q0", "Q1">>, <<"Q1", "Q0">>, <<"Q0.drive", "Q1">>} :
               GateECR(self, call[1], call[2])
        \/ GateReturns(self)

SpecGate == InitGate /\ [][NextGate]_vars

\* A call record.
CallOf(method, args) == [method |-> method, args |-> args]

IsRotation(call) == call.method \in {"X", "Y", "Z"}

\* The instructions that the last call appended to the builder it was made on.
Appended ==
    SubSeq(instructions[Last.self], Len(pre.instructions[Last.self]) + 1,
           Len(instructions[Last.self]))

ControlOf(controlled_qubit) ==
    IF controlled_qubit \in DOMAIN Lists THEN Lists[controlled_qubit][1] ELSE controlled_qubit

\* C15: a cnot(c, t) on a QuantumInstructionBuilder that returns has issued
\* ECR(c, t), X(c), Z(c, -pi/2), X(t, -pi/2) in this order and no other gate;
\* the builder holds what ECR(c, t) alone leaves, followed by the pulses of
\* X(c, pi), of Z(c, -pi/2) and of X(t, -pi/2).
C15_CnotIsECRThenThreeRotations ==
    (Called("cnot") /\ type(Last.self) = "QuantumInstructionBuilder" /\ Last.error = None) =>
        LET c == ControlOf(Last.args[1])
            t == Last.args[2]
            ecr == ECR(pre, Last.self, c, t)
            n == Len(ecr.w.heap)
            drive_c == get_pulse_channel(c, "drive", <<>>)
            drive_t == get_pulse_channel(t, "drive", <<>>)
        IN /\ SelectSeq(Last.calls, LAMBDA call : call.method \notin {"cnot", "model.get_gate_X",
                                                   "model.get_gate_Z", "model.get_gate_ZX"}) =
                  <<CallOf("ECR", <<c, t>>), CallOf("X", <<c, None>>),
                    CallOf("Z", <<c, "-pi/2">>), CallOf("X", <<t, "-pi/2">>)>>
           /\ ecr.error = None
           /\ Len(ecr.w.instructions[Last.self]) > Len(pre.instructions[Last.self])
           /\ instructions[Last.self] = ecr.w.instructions[Last.self] \o <<n + 1, n + 2, n + 3>>
           /\ heap = ecr.w.heap \o <<GatePulse("X", c, pi, drive_c),
                                     GatePulse("Z", c, "-pi/2", drive_c),
                                     GatePulse("X", t, "-pi/2", drive_t)>>

\* C15's case: cnot(Q0, Q1) on a QuantumInstructionBuilder that holds an
\* instruction already.
C15_Witness ==
    /\ Called("cnot")
    /\ Last.self = "A"
    /\ Last.args = <<"Q0", "Q1">>
    /\ Last.error = None
    /\ Len(pre.instructions["A"]) = 1
    /\ Len(instructions["A"]) = 13
    /\ heap[instructions["A"][2]].cls = "Synchronize"
    /\ heap[instructions["A"][13]] = GatePulse("X", "Q1", "-pi/2", "Q1.drive")

UnsupportedOnBase ==
    {"measure", "measure_single_shot_z", "measure_single_shot_signal", "measure_mean_z",
     "measure_mean_signal", "R", "X", "Y", "Z", "SX", "SXdg", "S", "Sdg", "T", "Tdg", "U",
     "had", "swap", "cswap", "cR", "cX", "cY", "cZ", "cnot", "ccnot", "ECR",
     "post_processing", "sweep", "pulse", "acquire", "delay", "synchronize", "phase_shift"}

UnsupportedOnQuantum == {"swap", "cswap", "ccnot", "cR", "cX", "cY", "cZ"}

\* C16: a call of an operation that the builder's class does not support
\* raises ValueError with one of the two messages for an operation that is
\* not available, and leaves the instruction sequence, and every other part
\* of the builders, as it was.
C16_UnsupportedRaisesAndLeavesBuilder ==
    (/\ hist # <<>>
     /\ \/ type(Last.self) = "InstructionBuilder" /\ Last.op \in UnsupportedOnBase
        \/ type(Last.self) = "QuantumInstructionBuilder" /\ Last.op \in UnsupportedOnQuantum) =>
        /\ Last.error \in {NotAvailable, "Generic controlled rotations not available."}
        /\ instructions[Last.self] = pre.instructions[Last.self]
        /\ Len(instructions[Last.self]) = Len(pre.instructions[Last.self])
        /\ World = pre

\* C16's case: cnot on an InstructionBuilder that holds an instruction,
\* which raises in cR by way of cX.
C16_Witness ==
    /\ Called("cnot")
    /\ Last.self = "I"
    /\ Len(instructions["I"]) = 1
    /\ Last.calls = <<CallOf("cnot", <<"Q0", "Q1">>), CallOf("cX", <<"Q0", "Q1", pi>>),
                      CallOf("cR", <<"X", "Q0", "Q1", pi>>)>>
    /\ Last.error = "Generic controlled rotations not available."

\* C22: ECR(control, target) on a QuantumInstructionBuilder, both of them
\* qubits, appends a barrier, the pulses of ZX(control, pi/4, target), the
\* barrier, the pulses of X(control, pi), the barrier, the pulses of
\* ZX(control, -pi/4, target) and the barrier, the barrier being a
\* Synchronize on the drive, cross-resonance and cancellation channels of
\* control and the drive channel of target; when one of the two is not a
\* qubit it raises and the builders are as they were.
C22_ECRIsThreeGatesBetweenBarriers ==
    (Called("ECR") /\ type(Last.self) = "QuantumInstructionBuilder") =>
        LET control == Last.args[1]
            target == Last.args[2]
            cr == get_pulse_channel(control, "cross_resonance", <<target>>)
            crc == get_pulse_channel(control, "cross_resonance_cancellation", <<target>>)
            n == Len(pre.heap)
            barrier == n + 1
        IN IF control \in Qubits /\ target \in Qubits
           THEN /\ Last.error = None
                /\ SubSeq(instructions[Last.self], 1, Len(pre.instructions[Last.self]))
                       = pre.instructions[Last.self]
                /\ SubSeq(heap, 1, n) = pre.heap
                /\ Appended = <<barrier, n + 2, n + 3, barrier, n + 4, barrier,
                                n + 5, n + 6, barrier>>
                /\ heap[barrier] =
                       Synchronize({get_pulse_channel(control, "drive", <<>>), cr, crc,
                                    get_pulse_channel(target, "drive", <<>>)})
                /\ heap[n + 2] = GatePulse("ZX", control, "pi/4", cr)
                /\ heap[n + 3] = GatePulse("ZX", control, "pi/4", crc)
                /\ heap[n + 4] = GatePulse("X", control, pi,
                                           get_pulse_channel(control, "drive", <<>>))
                /\ heap[n + 5] = GatePulse("ZX", control, "-pi/4", cr)
                /\ heap[n + 6] = GatePulse("ZX", control, "-pi/4", crc)
                /\ Len(heap) = n + 6
                /\ Last.calls = <<CallOf("ECR", Last.args),
                                  CallOf("model.get_gate_ZX", <<control, "pi/4", target>>),
                                  CallOf("model.get_gate_X", <<control, pi, None>>),
                                  CallOf("model.get_gate_ZX", <<control, "-pi/4", target>>)>>
           ELSE /\ Last.error = "The quantum targets of the ECR node must be qubits!"
                /\ World = pre

\* C22's case: ECR(Q1, Q0) on a QuantumInstructionBuilder that holds an
\* instruction already.
C22_Witness ==
    /\ Called("ECR")
    /\ Last.self = "A"
    /\ Last.args = <<"Q1", "Q0">>
    /\ Last.error = None
    /\ Len(hist) = 2
    /\ Len(pre.instructions["A"]) = 1
    /\ Len(Appended) = 9
    /\ heap[Appended[9]].targets =
           {"Q1.drive", "Q1.Q0.cross_resonance", "Q1.Q0.cross_resonance_cancellation",
            "Q0.drive"}

(***************************************************************************)
(* ECR and measure on one QuantumInstructionBuilder, whose hardware model  *)
(* has the channels of both.                                               *)
(***************************************************************************)
InitBarrier ==
    /\ Starts(__init__(MeasureBuilders))
    /\ pre = __init__(MeasureBuilders)
    /\ hist = <<>>
    /\ generate_name_records = FALSE
    /\ related_devices = [c \in DOMAIN Hardware \cup DOMAIN GateHardware |->
                             IF c \in DOMAIN Hardware THEN Hardware[c] ELSE GateHardware[c]]

\* builder.ECR(control, target).
BarrierECR(self, control, target) ==
    LET r == ECR(World, self, control, target)
    IN /\ Len(hist) < MaxMeasureCalls
       /\ Call(r.w, [op |-> "ECR", self |-> self, args |-> <<control, target>>,
                     error |-> r.error, calls |-> r.calls])

NextBarrier ==
    \/ BarrierECR("A", "Q0", "Q1")
    \/ \E qubit \in MeasuredQubits : Measure("A", qubit, None)
    \/ \E acq \in Acquires(Len(hist)), call \in PostProcessCalls : PostProcess("A", acq, call)

SpecBarrier == InitBarrier /\ [][NextBarrier]_vars

\* The instructions held before the last call whose channel set it changed.
ChannelsChanged ==
    {id \in Range(SequenceBefore) : heap[id].targets # pre.heap[id].targets}

\* The Synchronize instructions that a measure call made before its
\* MeasurePulse: a measure on the fresh path makes them one after the other,
\* right after the Acquire that it returns.
PreMeasurementSyncs ==
    {a + 1 : a \in {acq \in Acquires(Len(hist) - 1) :
                        /\ pre.heap[acq + 1].cls = "Synchronize"
                        /\ pre.heap[acq + 2].cls = "MeasurePulse"}}

\* C23: a measure call changes the channel set of an instruction that the
\* sequence held only when it merges, and only of a Synchronize of the
\* candidate block that a measure call made before its MeasurePulse.
C23_MeasureChangesOnlyPreMeasurementSync ==
    Measured =>
        \A id \in ChannelsChanged :
            /\ full_measure_block(pre, CandidateBefore)
            /\ id \in Range(CandidateBefore)
            /\ id \in PreMeasurementSyncs

====
